---- MODULE Spec2Model ----
(***************************************************************************)
(* Verification model of the Vatican speech scraper: the persistence layer *)
(* (vatican_scraper/step05_add_to_database.py, vatican_scraper/db_utils.py)*)
(* and the language-variant resolution of one speech                       *)
(* (vatican_scraper/step04_fetch_speech_texts.py).                         *)
(***************************************************************************)
EXTENDS Integers, Sequences, FiniteSets, TLC

\* Python None / SQL NULL.
Null == "<null>"

\* ------------------------------------------------------------------------
\* Bounds of the model.
\* ------------------------------------------------------------------------

\* Number of add_content_to_db calls in one behaviour.
MaxCalls == 2

\* Number of anchors in the translation menu of a base page.
MaxMenu == 2

\* ------------------------------------------------------------------------
\* Persistence layer: state.
\* ------------------------------------------------------------------------
VARIABLES
    tables,     \* names of the tables of the sqlite file
    popes,      \* committed rows of table popes
    texts,      \* committed rows of table texts
    pc,         \* position of the running add_content_to_db call
    cur,        \* arguments of the running / last call: [rec, replace]
    lastrowid,  \* cur.lastrowid of the call's connection
    ret,        \* outcome of the last call
    prev,       \* arguments and outcome of the call before the last one
    popes0,     \* popes as committed when the last call started
    texts0,     \* texts as committed when the last call started
    ncalls      \* number of calls started

dbvars == <<tables, popes, texts, pc, cur, lastrowid, ret, prev, popes0, texts0, ncalls>>

\* ------------------------------------------------------------------------
\* Language-variant resolution of one speech: state.
\* ------------------------------------------------------------------------
VARIABLES
    lpc,          \* position in the per-speech body of fetch_speeches_to_feather
    want_lang,    \* requested language code, upper case
    base,         \* the fetched base page: [final_url, html_lang, text, menu]
    base_lang,    \* language the base fetch landed on
    candidates,   \* translation candidate urls, in the order they are tried
    ci,           \* index of the next candidate to try
    tried,        \* outcomes of the candidates fetched so far
    served_lang,  \* language of the page the record is built from
    final,        \* [url, text] of the accepted page (the base page at first)
    row,          \* the record appended to rows
    stored        \* columns add_content_to_db writes for that record

langvars == <<lpc, want_lang, base, base_lang, candidates, ci, tried, served_lang, final, row,
              stored>>

\* ------------------------------------------------------------------------
\* Records handed to add_content_to_db.  pope_number, date and location are
\* the fields the extractor can leave None; the url is the page the stub
\* (title) was listed with.
\* ------------------------------------------------------------------------
PopeKeys ==
    { [pope |-> "Francis",      pope_number |-> "266"],
      [pope |-> "Francis",      pope_number |-> Null],
      [pope |-> "Benedict XVI", pope_number |-> "265"] }

Dates == {Null, "1 January 2020"}

Titles == {"Angelus", "Regina Caeli"}

Contents ==
    { [text |-> "A", location |-> Null],
      [text |-> "A", location |-> "Rome"],
      [text |-> "B", location |-> "Rome"] }

UrlOf(title) == IF title = "Angelus" THEN "u/angelus.html" ELSE "u/regina.html"

SpeechRecords ==
    { [pope |-> k.pope, pope_number |-> k.pope_number, date |-> d, title |-> t,
       location |-> c.location, text |-> c.text, url |-> UrlOf(t)] :
         k \in PopeKeys, d \in Dates, t \in Titles, c \in Contents }

NoRecord ==
    [pope |-> Null, pope_number |-> Null, date |-> Null, title |-> Null,
     location |-> Null, text |-> Null, url |-> Null]

NoReturn == [kind |-> "none", text_id |-> 0, pope_id |-> 0]

\* ------------------------------------------------------------------------
\* SQLite semantics used by the statements of add_content_to_db.
\* ------------------------------------------------------------------------

\* Largest value of a finite set of naturals (0 for the empty set).
MaxOf(S) == IF S = {} THEN 0 ELSE CHOOSE m \in S : \A n \in S : n <= m

\* INTEGER PRIMARY KEY without a supplied value: one more than the largest
\* rowid the table holds when the statement starts.
NewRowid(ids) == MaxOf(ids) + 1

\* Rows of popes that violate UNIQUE(pope_name, pope_number) against a new
\* row: SQLite treats NULLs as distinct, so a NULL column never conflicts.
PopeConflicts(P, rec) ==
    { p \in P : /\ rec.pope # Null
                /\ rec.pope_number # Null
                /\ p.pope_name = rec.pope
                /\ p.pope_number = rec.pope_number }

\* Rows of texts that violate UNIQUE(pope_id, title, date) against a new row.
TextConflicts(T, pid, rec) ==
    { t \in T : /\ rec.title # Null
                /\ rec.date # Null
                /\ t.pope_id = pid
                /\ t.title = rec.title
                /\ t.date = rec.date }

\* Variant of CascadeDelete: foreign keys not enforced on the connection, the
\* texts of a deleted pope row stay.
NoCascade(T, gone) == T

\* FOREIGN KEY (pope_id) REFERENCES popes(_pope_id) ON DELETE CASCADE, with
\* PRAGMA foreign_keys = ON: the texts that survive the deletion of the pope
\* rows `gone`.
CascadeDelete(T, gone) ==
    { t \in T : \A p \in gone : t.pope_id # p._pope_id }

\* record.get(key) of step05, lines 87-101: None when the dict has no such key.
Get(rec, key) == IF key \in DOMAIN rec THEN rec[key] ELSE Null

PopeRow(id, rec) ==
    [_pope_id |-> id, pope_name |-> rec.pope, pope_number |-> rec.pope_number]

TextRow(id, pid, rec) ==
    [_texts_id |-> id, pope_id |-> pid, date |-> rec.date, location |-> rec.location,
     title |-> rec.title, language |-> Get(rec, "language"), url |-> rec.url,
     text_content |-> rec.text]

\* INSERT OR IGNORE / INSERT OR REPLACE INTO popes (step05, lines 110-122).
\* IGNORE skips the statement on a conflict and leaves lastrowid alone;
\* REPLACE deletes the conflicting rows (the foreign key cascades to their
\* texts) and inserts the new row under a fresh rowid.
InsertPope(P, T, rec, replace, rowid) ==
    LET conf == PopeConflicts(P, rec)
        id   == NewRowid({ p._pope_id : p \in P })
    IN  IF conf # {} /\ ~replace
        THEN [popes |-> P, texts |-> T, lastrowid |-> rowid]
        ELSE [popes |-> (P \ conf) \cup {PopeRow(id, rec)},
              texts |-> CascadeDelete(T, conf),
              lastrowid |-> id]

\* SELECT _pope_id FROM popes WHERE pope_name = ? AND pope_number = ?
\* (step05, lines 125-126): a comparison with NULL is never true.
LookupPope(P, rec) ==
    { p._pope_id : p \in
        { q \in P : /\ rec.pope # Null
                    /\ rec.pope_number # Null
                    /\ q.pope_name = rec.pope
                    /\ q.pope_number = rec.pope_number } }

\* fetchone(): the first row of the lookup, in rowid order.
FetchOne(ids) == CHOOSE m \in ids : \A n \in ids : m <= n

\* INSERT OR IGNORE / INSERT OR REPLACE INTO texts (step05, lines 132-138).
InsertText(T, pid, rec, replace, rowid) ==
    LET conf == TextConflicts(T, pid, rec)
        id   == NewRowid({ t._texts_id : t \in T })
    IN  IF conf # {} /\ ~replace
        THEN [texts |-> T, lastrowid |-> rowid]
        ELSE [texts |-> (T \ conf) \cup {TextRow(id, pid, rec)},
              lastrowid |-> id]

\* ------------------------------------------------------------------------
\* Persistence layer: operations.
\* ------------------------------------------------------------------------

\* State before the first call: the database file does not exist yet.
DbInit ==
    /\ tables = {}
    /\ popes = {}
    /\ texts = {}
    /\ pc = "idle"
    /\ cur = [rec |-> NoRecord, replace |-> FALSE]
    /\ lastrowid = 0
    /\ ret = NoReturn
    /\ prev = [rec |-> NoRecord, replace |-> FALSE, ret |-> NoReturn]
    /\ popes0 = {}
    /\ texts0 = {}
    /\ ncalls = 0

\* add_content_to_db, lines 84-122: ensure_db_and_table, open a connection
\* (its lastrowid starts at 0), insert the pope row, commit.
AddPope(rec, replace) ==
    /\ pc = "idle"
    /\ ncalls < MaxCalls
    /\ tables' = tables \cup {"popes", "texts"}
    /\ LET r == InsertPope(popes, texts, rec, replace, 0)
       IN  /\ popes' = r.popes
           /\ texts' = r.texts
           /\ lastrowid' = r.lastrowid
    /\ cur' = [rec |-> rec, replace |-> replace]
    /\ prev' = [rec |-> cur.rec, replace |-> cur.replace, ret |-> ret]
    /\ popes0' = popes
    /\ texts0' = texts
    /\ ret' = NoReturn
    /\ pc' = "pope_committed"
    /\ ncalls' = ncalls + 1

\* add_content_to_db, lines 124-144: look the pope id up, insert the text
\* row, commit, return (cur.lastrowid or 0, _pope_id).
AddText ==
    /\ pc = "pope_committed"
    /\ LookupPope(popes, cur.rec) # {}
    /\ LET pid == FetchOne(LookupPope(popes, cur.rec))
           r   == InsertText(texts, pid, cur.rec, cur.replace, lastrowid)
       IN  /\ texts' = r.texts
           /\ lastrowid' = r.lastrowid
           /\ ret' = [kind |-> "ok", text_id |-> r.lastrowid, pope_id |-> pid]
    /\ pc' = "idle"
    /\ UNCHANGED <<tables, popes, cur, prev, popes0, texts0, ncalls>>

\* Variant of RaiseNotFound: the pope insert was not committed on its own,
\* closing the connection after the ValueError rolls it back.
RaiseNotFoundRolledBack ==
    /\ pc = "pope_committed"
    /\ LookupPope(popes, cur.rec) = {}
    /\ ret' = [kind |-> "raised", text_id |-> 0, pope_id |-> 0]
    /\ pc' = "idle"
    /\ popes' = popes0
    /\ texts' = texts0
    /\ UNCHANGED <<tables, cur, lastrowid, prev, popes0, texts0, ncalls>>

\* add_content_to_db, lines 127-128 and 143-144: the lookup found no row,
\* ValueError propagates to the caller after the connection is closed.
RaiseNotFound ==
    /\ pc = "pope_committed"
    /\ LookupPope(popes, cur.rec) = {}
    /\ ret' = [kind |-> "raised", text_id |-> 0, pope_id |-> 0]
    /\ pc' = "idle"
    /\ UNCHANGED <<tables, popes, texts, cur, lastrowid, prev, popes0, texts0, ncalls>>

\* The process stops between the commit of line 122 and the commit of line
\* 138: what was committed stays, nothing else is written.
Terminate ==
    /\ pc = "pope_committed"
    /\ ret' = [kind |-> "stopped", text_id |-> 0, pope_id |-> 0]
    /\ pc' = "idle"
    /\ UNCHANGED <<tables, popes, texts, cur, lastrowid, prev, popes0, texts0, ncalls>>

\* ------------------------------------------------------------------------
\* Existence check of the pipeline (vatican_scraper/db_utils.py).
\* ------------------------------------------------------------------------

\* The table the SELECT of speech_url_exists_in_db names.
QueryTable == "speeches"

\* Rows with a url column of the table `name`.
RowsOf(name) == IF name = "texts" THEN texts ELSE {}

\* speech_url_exists_in_db: SELECT 1 FROM speeches WHERE url = ? LIMIT 1; a
\* missing table raises sqlite3.OperationalError, which the bare except turns
\* into False.
speech_url_exists_in_db(url) ==
    /\ QueryTable \in tables
    /\ \E r \in RowsOf(QueryTable) : r.url = url

\* ------------------------------------------------------------------------
\* Claims about the persistence layer.
\* ------------------------------------------------------------------------

\* The texts rows stored for a record: same title and date, and a pope row
\* with the record's name and number.
RowsFor(rec) ==
    { t \in texts :
        /\ t.title = rec.title
        /\ t.date = rec.date
        /\ \E p \in popes : /\ p._pope_id = t.pope_id
                            /\ p.pope_name = rec.pope
                            /\ p.pope_number = rec.pope_number }

\* The last two calls both ran to their end (returned or raised).
TwoCallsEnded ==
    /\ pc = "idle"
    /\ ncalls >= 2
    /\ ret.kind \in {"ok", "raised"}
    /\ prev.ret.kind \in {"ok", "raised"}

\* C1: calling add_content_to_db twice with the same record under the ignore
\* policy returns text id 0 on the second call and leaves exactly one texts
\* row for that record.
C1_IgnoreTwiceIsIdempotent ==
    (TwoCallsEnded /\ ~cur.replace /\ ~prev.replace /\ prev.rec = cur.rec)
        => /\ ret.kind = "ok"
           /\ ret.text_id = 0
           /\ Cardinality(RowsFor(cur.rec)) = 1

\* C2: under the replace policy, upserting R and then R' with the same pope,
\* title and date but different content leaves exactly one texts row for the
\* key, holding the content of R'.
C2_ReplaceOverwrites ==
    (/\ TwoCallsEnded /\ cur.replace /\ prev.replace
     /\ prev.rec.pope = cur.rec.pope
     /\ prev.rec.pope_number = cur.rec.pope_number
     /\ prev.rec.title = cur.rec.title
     /\ prev.rec.date = cur.rec.date
     /\ prev.rec.text # cur.rec.text)
        => /\ Cardinality(RowsFor(cur.rec)) = 1
           /\ \A t \in RowsFor(cur.rec) : t.text_content = cur.rec.text

\* The pope (name, number) a texts row of the snapshot texts0 belonged to.
SamePopeBefore(t, rec) ==
    \E p \in popes0 : /\ p._pope_id = t.pope_id
                      /\ p.pope_name = rec.pope
                      /\ p.pope_number = rec.pope_number

\* C3: an upsert with the replace policy leaves every texts row whose key
\* (pope, title, date) differs from the upserted record's key present and
\* unchanged, other texts of the same pope included.
C3_ReplaceKeepsOtherRows ==
    (pc = "idle" /\ ncalls >= 1 /\ cur.replace /\ ret.kind = "ok")
        => \A t \in texts0 :
              (\/ t.title # cur.rec.title
               \/ t.date # cur.rec.date
               \/ ~SamePopeBefore(t, cur.rec))
                 => t \in texts

\* C4: under the ignore policy add_content_to_db never raises: every call
\* that ends returns a (text_id, pope_id) pair.
C4_IgnoreNeverRaises ==
    (pc = "idle" /\ ncalls >= 1 /\ ~cur.replace) => ret.kind # "raised"

\* C5: every row of texts has a pope_id equal to the _pope_id of a row of
\* popes, in every committed state and under either policy.
C5_TextReferencesPope ==
    \A t \in texts : \E p \in popes : p._pope_id = t.pope_id

\* C5 witness: a replace call returned after replacing a pope row that had
\* texts, and texts is not empty.
C5_Witness ==
    /\ pc = "idle"
    /\ ret.kind = "ok"
    /\ cur.replace
    /\ \E p \in PopeConflicts(popes0, cur.rec) :
          \E t \in texts0 : t.pope_id = p._pope_id
    /\ texts # {}

\* C6: popes holds at most one row per (pope_name, pope_number), a null
\* pope_number included.
C6_OnePopeRowPerKey ==
    \A p, q \in popes :
        (p.pope_name = q.pope_name /\ p.pope_number = q.pope_number) => p = q

\* C7 as stated: a call that failed or stopped before its text row was
\* written has left nothing committed (its pope insert is not durable).
C7_CallIsOneTransaction ==
    (pc = "idle" /\ ret.kind \in {"raised", "stopped"})
        => (popes = popes0 /\ texts = texts0)

\* C7 amended: the call commits twice on one connection; a call that fails
\* at the lookup or stops after the first commit has written no text row,
\* and the pope row it inserted is durable.
C7_FailedCallLeavesPopeOnly ==
    (pc = "idle" /\ ret.kind \in {"raised", "stopped"})
        => /\ texts \subseteq texts0
           /\ \E p \in popes : /\ p.pope_name = cur.rec.pope
                               /\ p.pope_number = cur.rec.pope_number

\* C7 witness: a call raised after its pope insert was committed.
C7_Witness ==
    /\ pc = "idle"
    /\ ret.kind = "raised"
    /\ popes # popes0
    /\ texts = texts0

\* C8: once a texts row with url u is stored, speech_url_exists_in_db(u) is
\* true.
C8_StoredUrlIsFound ==
    \A t \in texts : speech_url_exists_in_db(t.url)

\* ------------------------------------------------------------------------
\* Language-variant resolution (vatican_scraper/step04_fetch_speech_texts.py).
\* A url is [doc, lang]: the document it names and the two-letter segment
\* after /content/<slug>/ (Null when the url has no such segment).  A text is
\* [body, chars, common]: the page it was parsed from, its length after
\* _norm_text_for_compare, and the number of characters difflib matches
\* between it and the base text.
\* ------------------------------------------------------------------------

Langs == {"EN", "IT", "FR"}

\* None where a url / a text is expected.
NoUrl == [doc |-> Null, lang |-> Null]

NoText == [body |-> Null, chars |-> 0, common |-> 0]

\* str.upper() / str.lower() on a language code.
Upper(l) == CASE l = "en" -> "EN" [] l = "it" -> "IT" [] l = "fr" -> "FR" [] OTHER -> l

Lower(l) == CASE l = "EN" -> "en" [] l = "IT" -> "it" [] l = "FR" -> "fr" [] OTHER -> l

\* _lang_from_url: the language segment of the url, upper case, or None.
_lang_from_url(url) == IF url.lang = Null THEN Null ELSE Upper(url.lang)

\* _lang_from_html: the part of <html lang=...> before "-", upper case; None
\* when the attribute is missing or empty.
_lang_from_html(attr) ==
    CASE attr = Null -> Null
      [] attr = "en-US" -> "EN"
      [] attr = "it-IT" -> "IT"
      [] OTHER -> Upper(attr)

\* _rewrite_lang_in_url: the url with its language segment replaced by the
\* lower-cased requested code; None when the url has no language segment.
_rewrite_lang_in_url(url, want) ==
    IF url.lang = Null THEN NoUrl ELSE [url EXCEPT !.lang = Lower(want)]

\* Minimum normalized length below which texts are not compared.
MinCompareLen == 300

\* Similarity threshold 0.995, in thousandths.
RatioPermille == 995

\* difflib.SequenceMatcher(None, aa, bb).ratio() >= 0.995, the ratio being
\* 2 * matches / (len(aa) + len(bb)), and 1.0 for two empty texts.
RatioAtLeast(a, b) == 2 * b.common * 1000 >= RatioPermille * (a.chars + b.chars)

\* Variant of _is_effectively_same_text: the comparison is strict.
StrictlyAboveThreshold(a, b) ==
    /\ a.chars # 0
    /\ b.chars # 0
    /\ ~(a.chars < MinCompareLen \/ b.chars < MinCompareLen)
    /\ 2 * b.common * 1000 > RatioPermille * (a.chars + b.chars)

\* _is_effectively_same_text(a, b), a the base text and b the candidate's.
_is_effectively_same_text(a, b) ==
    /\ a.chars # 0
    /\ b.chars # 0
    /\ ~(a.chars < MinCompareLen \/ b.chars < MinCompareLen)
    /\ RatioAtLeast(a, b)

\* Href of the first anchor of the menu, in page order, among those at the
\* positions `hits`; None if there is none.
FirstAnchor(menu, hits) ==
    IF hits = {} THEN NoUrl
    ELSE menu[CHOOSE i \in hits : \A j \in hits : i <= j].href

\* find_translation_url: the first menu anchor with a non-empty href whose
\* url language is the requested one; failing that, the first such anchor
\* whose visible text is the requested code.
find_translation_url(menu, want) ==
    LET byUrl  == { i \in 1..Len(menu) :
                      menu[i].href # NoUrl /\ _lang_from_url(menu[i].href) = want }
        byCode == { i \in 1..Len(menu) :
                      /\ menu[i].href # NoUrl
                      /\ menu[i].code = want
                      /\ _lang_from_url(menu[i].href) = want }
    IN  IF byUrl # {} THEN FirstAnchor(menu, byUrl) ELSE FirstAnchor(menu, byCode)

\* De-duplication preserving order (step04, lines 512-513).
RECURSIVE Dedup(_)
Dedup(us) ==
    IF us = <<>> THEN <<>>
    ELSE LET rest == Dedup(SubSeq(us, 1, Len(us) - 1))
             last == us[Len(us)]
         IN  IF \E i \in 1..Len(rest) : rest[i] = last THEN rest ELSE Append(rest, last)

\* Candidate list of step04, lines 500-513.
Candidates(b, want) ==
    LET tr_url  == find_translation_url(b.menu, want)
        guessed == _rewrite_lang_in_url(b.final_url, want)
    IN  Dedup((IF tr_url # NoUrl THEN <<tr_url>> ELSE <<>>)
              \o (IF guessed # NoUrl /\ guessed # b.final_url THEN <<guessed>> ELSE <<>>))

\* Variant of CandidateAccepted: the declared page language is not looked at.
AcceptedWithoutDeclaredLang(want, base_text, o) ==
    /\ ~o.error
    /\ _lang_from_url(o.final_url) = want
    /\ ~_is_effectively_same_text(base_text, o.text)

\* The checks of step04, lines 516-534, on one fetched candidate: TRUE when
\* the loop reaches "Accept candidate".
CandidateAccepted(want, base_text, o) ==
    /\ ~o.error
    /\ _lang_from_url(o.final_url) = want
    /\ ~(_lang_from_html(o.html_lang) # Null /\ _lang_from_html(o.html_lang) # want)
    /\ ~_is_effectively_same_text(base_text, o.text)

\* "Not available in the requested language." (step04, line 554).
Sentinel == [body |-> "sentinel", chars |-> 40, common |-> 0]

NoRow == [url |-> NoUrl, text |-> NoText, lang_requested |-> Null,
          lang_available |-> Null, has_links |-> FALSE]

NoStored == [language |-> Null, url |-> NoUrl, text_content |-> NoText]

\* Pages the site can serve.
BaseUrls == { [doc |-> "speech", lang |-> l] : l \in {"en", "it", Null} }

HtmlLangAttrs == {Null, "it", "en-US"}

BaseTexts == { [body |-> "base", chars |-> n, common |-> n] : n \in {0, 200, 400} }

Anchors ==
    { [href |-> [doc |-> "speech", lang |-> "it"], code |-> "IT"],
      [href |-> [doc |-> "speech_alt", lang |-> "it"], code |-> "Italiano"],
      [href |-> [doc |-> "speech", lang |-> "fr"], code |-> "FR"],
      [href |-> NoUrl, code |-> "IT"] }

Menus == UNION { [1..n -> Anchors] : n \in 0..MaxMenu }

\* Texts a candidate page can carry, against a base text of `n` characters:
\* empty, a short copy, a full copy, a copy within / below the threshold.
CandTexts(n) ==
    { t \in { [body |-> "cand", chars |-> c, common |-> m] :
                c \in {0, 200, 400}, m \in {0, 200, 397, 398, 400} } :
        /\ t.common <= t.chars
        /\ t.common <= n
        /\ t.common \in {0, 397, 398, t.chars} }

\* What fetch_html_with_final_url can give for a candidate url: an exception,
\* or a page at the url itself or at the /en/ page it redirects to.
Outcomes(u, n) ==
    { [error |-> TRUE, req |-> u, final_url |-> NoUrl, html_lang |-> Null,
       text |-> NoText, accepted |-> FALSE] }
    \cup
    { [error |-> FALSE, req |-> u, final_url |-> [u EXCEPT !.lang = l],
       html_lang |-> h, text |-> t, accepted |-> FALSE] :
         l \in {u.lang, "en"}, h \in HtmlLangAttrs, t \in CandTexts(n) }

LangInit ==
    /\ lpc = "start"
    /\ want_lang = Null
    /\ base = [final_url |-> NoUrl, html_lang |-> Null, text |-> NoText, menu |-> <<>>]
    /\ base_lang = Null
    /\ candidates = <<>>
    /\ ci = 1
    /\ tried = <<>>
    /\ served_lang = Null
    /\ final = [url |-> NoUrl, text |-> NoText]
    /\ row = NoRow
    /\ stored = NoStored

\* fetch_speeches_to_feather, lines 480-513: fetch the base page, find the
\* language it landed on, and list the translation candidates when that is
\* not the requested language.
FetchBase(want, b) ==
    /\ lpc = "start"
    /\ want_lang' = want
    /\ base' = b
    /\ LET bl == IF _lang_from_url(b.final_url) # Null THEN _lang_from_url(b.final_url)
                 ELSE IF _lang_from_html(b.html_lang) # Null THEN _lang_from_html(b.html_lang)
                 ELSE "EN"
       IN  /\ base_lang' = bl
           /\ served_lang' = bl
           /\ candidates' = IF want # bl THEN Candidates(b, want) ELSE <<>>
    /\ final' = [url |-> b.final_url, text |-> b.text]
    /\ ci' = 1
    /\ tried' = <<>>
    /\ lpc' = "resolve"
    /\ UNCHANGED <<row, stored>>

\* Line 480: the fetch of the base page is in no try block, its exception
\* leaves fetch_speeches_to_feather.
FetchBaseRaises ==
    /\ lpc = "start"
    /\ lpc' = "raised"
    /\ UNCHANGED <<want_lang, base, base_lang, candidates, ci, tried, served_lang, final, row,
                   stored>>

\* Variant of ExceptContinue: the exception of a candidate fetch leaves
\* the loop and the function.
ExceptPropagates == "raised"

\* Lines 516-519, `except Exception: continue`: after a failed candidate
\* fetch the loop goes on.
ExceptContinue == "resolve"

\* One iteration of the candidate loop, lines 515-540: fetch the candidate,
\* skip it on an exception or a failed check, otherwise accept it and break.
TryCandidate ==
    /\ lpc = "resolve"
    /\ ci <= Len(candidates)
    /\ \E o \in Outcomes(candidates[ci], base.text.chars) :
          /\ lpc' = IF o.error THEN ExceptContinue ELSE lpc
          /\ IF CandidateAccepted(want_lang, base.text, o)
             THEN /\ final' = [url |-> o.final_url, text |-> o.text]
                  /\ served_lang' = want_lang
                  /\ tried' = Append(tried, [o EXCEPT !.accepted = TRUE])
                  /\ ci' = Len(candidates) + 1
             ELSE /\ tried' = Append(tried, o)
                  /\ ci' = ci + 1
                  /\ UNCHANGED <<final, served_lang>>
    /\ UNCHANGED <<want_lang, base, base_lang, candidates, row, stored>>

\* Variant of EmitRow: without a page in the requested language the record
\* keeps the text and the links of the base page.
EmitRowKeepsBaseText ==
    /\ lpc = "resolve"
    /\ ci > Len(candidates)
    /\ row' = [url            |-> IF served_lang = want_lang THEN final.url ELSE base.final_url,
               text           |-> IF served_lang = want_lang THEN final.text ELSE base.text,
               lang_requested |-> want_lang,
               lang_available |-> IF served_lang = want_lang THEN served_lang ELSE Null,
               has_links      |-> TRUE]
    /\ lpc' = "emitted"
    /\ UNCHANGED <<want_lang, base, base_lang, candidates, ci, tried, served_lang, final, stored>>

\* Lines 543-576: build the record from the served page, or from the base
\* page with the sentinel text.
EmitRow ==
    /\ lpc = "resolve"
    /\ ci > Len(candidates)
    /\ row' = [url            |-> IF served_lang = want_lang THEN final.url ELSE base.final_url,
               text           |-> IF served_lang = want_lang THEN final.text ELSE Sentinel,
               lang_requested |-> want_lang,
               lang_available |-> IF served_lang = want_lang THEN served_lang ELSE Null,
               has_links      |-> served_lang = want_lang]
    /\ lpc' = "emitted"
    /\ UNCHANGED <<want_lang, base, base_lang, candidates, ci, tried, served_lang, final, stored>>

\* The language, url and text_content columns add_content_to_db stores for a
\* record (step05, lines 99-101 and 132-137).
StoredColumns(rec) ==
    [language |-> Get(rec, "language"), url |-> Get(rec, "url"),
     text_content |-> Get(rec, "text")]

\* step06, lines 46-48: the emitted record is handed to add_content_to_db.
StoreRow ==
    /\ lpc = "emitted"
    /\ stored' = StoredColumns(row)
    /\ lpc' = "stored"
    /\ UNCHANGED <<want_lang, base, base_lang, candidates, ci, tried, served_lang, final, row>>

\* ------------------------------------------------------------------------
\* Claims about the language resolution.
\* ------------------------------------------------------------------------

\* C11: the language column stored for an emitted record is the language
\* actually served: the requested language when a valid page in it was
\* used, otherwise the base page's language.
C11_StoredLanguageIsServed ==
    lpc = "stored"
        => stored.language = (IF served_lang = want_lang THEN want_lang ELSE base_lang)

\* No candidate was accepted.
NoneAccepted == \A k \in 1..Len(tried) : ~tried[k].accepted

\* C27: a failed candidate fetch does not end the run: the candidate is
\* not accepted and the loop has moved past it; the function is left by an
\* exception only at the base fetch, before any candidate; and a record
\* emitted with no accepted candidate carries the sentinel text and the
\* base url.
C27_CandidateFailureIsSkipped ==
    /\ \A k \in 1..Len(tried) :
          tried[k].error => (~tried[k].accepted /\ ci > k /\ lpc # "raised")
    /\ lpc = "raised" => tried = <<>>
    /\ (lpc = "resolve" /\ ci > Len(candidates)) => ENABLED EmitRow
    /\ (lpc \in {"emitted", "stored"} /\ want_lang # base_lang /\ NoneAccepted)
          => (row.text = Sentinel /\ row.url = base.final_url)

\* The pages fetched for the speech that a record can be built from: the
\* base page and the accepted candidate, as [url, text].
C29_ServedPages ==
    {[url |-> base.final_url, text |-> base.text]}
    \cup {[url |-> tried[k].final_url, text |-> tried[k].text] :
             k \in {j \in 1..Len(tried) : tried[j].accepted}}

C29_ServedShape ==
    /\ row.lang_available = row.lang_requested
    /\ row.has_links
    /\ [url |-> row.url, text |-> row.text] \in C29_ServedPages

C29_SentinelShape ==
    /\ row.lang_available = Null
    /\ row.text = Sentinel
    /\ ~row.has_links
    /\ row.url = base.final_url

\* C29: an emitted record has the requested language, the text and the
\* links of the page at its url, or else no language, the sentinel text, no
\* links and the url of the base page; never a mix of the two.
C29_RecordShapes ==
    lpc \in {"emitted", "stored"}
        => /\ C29_ServedShape \/ C29_SentinelShape
           /\ ~(C29_ServedShape /\ C29_SentinelShape)

\* A record was emitted from an accepted candidate after a rejected one.
C29_Witness ==
    /\ lpc = "emitted"
    /\ Len(tried) = 2
    /\ ~tried[1].accepted
    /\ tried[2].accepted
    /\ row.url = tried[2].final_url
    /\ row.lang_available = want_lang

\* Both candidates of a speech failed to fetch and the record was emitted.
C27_Witness ==
    /\ lpc = "emitted"
    /\ Len(tried) = 2
    /\ tried[1].error
    /\ tried[2].error
    /\ row.text = Sentinel

\* C9 as stated: a candidate whose text has similarity ratio >= 0.995 to the
\* base text is never accepted, and with no accepted candidate the record
\* carries the sentinel text.
C9_SimilarNeverAccepted ==
    /\ \A k \in 1..Len(tried) :
          (~tried[k].error /\ RatioAtLeast(base.text, tried[k].text))
             => ~tried[k].accepted
    /\ (lpc \in {"emitted", "stored"} /\ want_lang # base_lang /\ NoneAccepted)
          => row.text = Sentinel

\* C9 amended: a candidate whose text has similarity ratio >= 0.995 to the
\* base text is never accepted when both normalized texts have at least 300
\* characters, and with no accepted candidate the record carries the
\* sentinel text.
C9_LongSimilarNeverAccepted ==
    /\ \A k \in 1..Len(tried) :
          (/\ ~tried[k].error
           /\ base.text.chars >= MinCompareLen
           /\ tried[k].text.chars >= MinCompareLen
           /\ RatioAtLeast(base.text, tried[k].text))
             => ~tried[k].accepted
    /\ (lpc \in {"emitted", "stored"} /\ want_lang # base_lang /\ NoneAccepted)
          => (row.text = Sentinel /\ row.lang_available = Null)

\* C9 witness: a candidate that landed on the requested language, declares
\* no other language and is a near copy of a long base text was tried, and
\* the record emitted carries the sentinel.
C9_Witness ==
    /\ lpc = "emitted"
    /\ row.text = Sentinel
    /\ \E k \in 1..Len(tried) :
          /\ ~tried[k].error
          /\ _lang_from_url(tried[k].final_url) = want_lang
          /\ _lang_from_html(tried[k].html_lang) = Null
          /\ base.text.chars >= MinCompareLen
          /\ tried[k].text.chars >= MinCompareLen
          /\ RatioAtLeast(base.text, tried[k].text)

\* The three conditions of C10 on a fetched candidate.
C10_Passes(o) ==
    /\ ~o.error
    /\ _lang_from_url(o.final_url) = want_lang
    /\ (_lang_from_html(o.html_lang) = Null \/ _lang_from_html(o.html_lang) = want_lang)
    /\ ~_is_effectively_same_text(base.text, o.text)

\* The candidate order of C10: menu link, then url rewrite, no duplicate.
C10_Order ==
    LET tr == find_translation_url(base.menu, want_lang)
        rw == _rewrite_lang_in_url(base.final_url, want_lang)
    IN  IF tr # NoUrl /\ rw # NoUrl /\ tr # rw THEN <<tr, rw>>
        ELSE IF tr # NoUrl THEN <<tr>>
        ELSE IF rw # NoUrl THEN <<rw>>
        ELSE <<>>

\* C10: when the base page is not in the requested language, the candidates
\* are tried in the order menu link, url rewrite (duplicates removed); the
\* record is built from the first candidate that lands on the requested
\* language, declares no other language and is not near-identical to the
\* base text; if none passes, the record has the sentinel text and the base
\* page's final url.
C10_FirstPassingCandidateWins ==
    (lpc \in {"emitted", "stored"} /\ want_lang # base_lang)
        => /\ candidates = C10_Order
           /\ \A k \in 1..Len(tried) : tried[k].req = candidates[k]
           /\ LET pass == { k \in 1..Len(tried) : C10_Passes(tried[k]) }
              IN  IF pass # {}
                  THEN LET k == CHOOSE i \in pass : \A j \in pass : i <= j
                       IN  /\ Len(tried) = k
                           /\ row.url = tried[k].final_url
                           /\ row.text = tried[k].text
                  ELSE /\ Len(tried) = Len(candidates)
                       /\ row.text = Sentinel
                       /\ row.url = base.final_url

\* C10 witness: two candidates were tried, the first failed a check and the
\* second passed and supplies the record.
C10_Witness ==
    /\ lpc = "emitted"
    /\ Len(candidates) = 2
    /\ Len(tried) = 2
    /\ ~C10_Passes(tried[1])
    /\ ~tried[1].error
    /\ C10_Passes(tried[2])
    /\ row.url = tried[2].final_url

\* ------------------------------------------------------------------------
\* The batch pipeline, step06 main: one fetch stage and one upsert stage per
\* pope, failures collected, exit status decided in the summary.
\* ------------------------------------------------------------------------

MaxPopeArgs == 2      \* longest --pope list and longest --popes list
MaxRows == 2          \* most speeches one pope's fetch stage enumerates

VARIABLES
    bpc,          \* "args", "loop", "fetch", "upsert", "done"
    plist,        \* args.popes, the list main iterates
    pidx,         \* position of the pope being processed (0 before the first)
    attempts,     \* history: popes whose try block was entered, in order
    mem,          \* rows the running fetch stage holds in memory
    pending,      \* rows of the current pope still to upsert
    written,      \* per position of plist: rows committed by add_content_to_db
    successes,    \* list of popes
    failures,     \* list of <<pope, kind of exception>>
    exit_status   \* Running, then 0 or 1

batchvars == <<bpc, plist, pidx, attempts, mem, pending, written, successes, failures,
               exit_status>>

\* Value of exit_status while main has not ended.
Running == -1

PopeNames == {"Francis", "Benedict XVI", "John Paul II"}

PopeArgLists == UNION {[1..n -> PopeNames] : n \in 0..MaxPopeArgs}

\* Variant of Uniq that keeps repeated names.
KeepRepeats(ps) == ps

\* argparser, lines 45-52: de-duplicate while preserving order.
RECURSIVE Uniq(_)
Uniq(ps) ==
    IF ps = <<>> THEN <<>>
    ELSE LET front == Uniq(SubSeq(ps, 1, Len(ps) - 1))
             p == ps[Len(ps)]
         IN  IF \E i \in 1..Len(front) : front[i] = p THEN front ELSE Append(front, p)

\* argparser, lines 31-52. pope is the list of --pope values, csv the items of
\* --popes after split(","), strip and dropping empty items.
_gather_popes(pope, csv) ==
    LET first == IF pope = <<>> THEN <<"Francis">> ELSE pope
    IN  Uniq(first \o csv)

\* Variant of ExitStatus: the summary never reports a failure.
ExitStatusAlwaysZero(fs) == IF fs # <<>> THEN 0 ELSE 0

\* step06, lines 76-83: raise SystemExit(1) when any pope failed, else fall
\* off the end of main.
ExitStatus(fs) == IF fs # <<>> THEN 1 ELSE 0

BatchInit ==
    /\ bpc = "args"
    /\ plist = <<>>
    /\ pidx = 0
    /\ attempts = <<>>
    /\ mem = 0
    /\ pending = 0
    /\ written = <<>>
    /\ successes = <<>>
    /\ failures = <<>>
    /\ exit_status = Running

\* step06, lines 16-29: read the arguments, start with empty lists.
ParseArgs(pope, csv) ==
    /\ bpc = "args"
    /\ plist' = _gather_popes(pope, csv)
    /\ written' = [i \in 1..Len(_gather_popes(pope, csv)) |-> 0]
    /\ bpc' = "loop"
    /\ UNCHANGED <<pidx, attempts, mem, pending, successes, failures, exit_status>>

\* step06, lines 31-35: the next pope's try block is entered.
NextPope ==
    /\ bpc = "loop"
    /\ pidx < Len(plist)
    /\ pidx' = pidx + 1
    /\ attempts' = Append(attempts, plist[pidx + 1])
    /\ mem' = 0
    /\ bpc' = "fetch"
    /\ UNCHANGED <<plist, pending, written, successes, failures, exit_status>>

\* Variant of FetchSpeech: each row is committed as soon as it is fetched.
FetchSpeechWritesThrough ==
    /\ bpc = "fetch"
    /\ mem < MaxRows
    /\ mem' = mem + 1
    /\ written' = [written EXCEPT ![pidx] = @ + 1]
    /\ UNCHANGED <<bpc, plist, pidx, attempts, pending, successes, failures, exit_status>>

\* step04, lines 480-576 inside the call of step06 line 35: one more speech
\* is fetched and its row appended to the in-memory list.
FetchSpeech ==
    /\ bpc = "fetch"
    /\ mem < MaxRows
    /\ mem' = mem + 1
    /\ UNCHANGED <<bpc, plist, pidx, attempts, pending, written, successes, failures,
                   exit_status>>

\* step06, lines 63-68: the fetch stage raised; the rows held in memory
\* are dropped with the frame.
FetchRaises(kind) ==
    /\ bpc = "fetch"
    /\ failures' = Append(failures, <<plist[pidx], kind>>)
    /\ mem' = 0
    /\ bpc' = "loop"
    /\ UNCHANGED <<plist, pidx, attempts, pending, written, successes, exit_status>>

\* step04, lines 580-607 and step06, line 35: the fetch stage returns its
\* rows (an empty list raises SystemExit instead, line 581).
FetchReturns ==
    /\ bpc = "fetch"
    /\ mem > 0
    /\ pending' = mem
    /\ bpc' = "upsert"
    /\ UNCHANGED <<plist, pidx, attempts, mem, written, successes, failures, exit_status>>

\* step06, lines 46-48: add_content_to_db commits one row.
Upsert ==
    /\ bpc = "upsert"
    /\ pending > 0
    /\ written' = [written EXCEPT ![pidx] = @ + 1]
    /\ pending' = pending - 1
    /\ UNCHANGED <<bpc, plist, pidx, attempts, mem, successes, failures, exit_status>>

\* step06, lines 48 and 67-68: add_content_to_db raised.
UpsertRaises ==
    /\ bpc = "upsert"
    /\ pending > 0
    /\ failures' = Append(failures, <<plist[pidx], "Exception">>)
    /\ pending' = 0
    /\ bpc' = "loop"
    /\ UNCHANGED <<plist, pidx, attempts, mem, written, successes, exit_status>>

\* step06, line 61: every row of the pope was handed over.
PopeSucceeds ==
    /\ bpc = "upsert"
    /\ pending = 0
    /\ successes' = Append(successes, plist[pidx])
    /\ bpc' = "loop"
    /\ UNCHANGED <<plist, pidx, attempts, mem, pending, written, failures, exit_status>>

\* step06, lines 70-83: the loop is over, the summary decides the status.
Summary ==
    /\ bpc = "loop"
    /\ pidx = Len(plist)
    /\ exit_status' = ExitStatus(failures)
    /\ bpc' = "done"
    /\ UNCHANGED <<plist, pidx, attempts, mem, pending, written, successes, failures>>

\* Number of entries of a list that name pope p.
CountIn(list, p) == Cardinality({i \in 1..Len(list) : list[i] = p})

FailedPopes == [i \in 1..Len(failures) |-> failures[i][1]]

\* Popes whose try block has been left.
Finished == IF bpc \in {"loop", "done"} THEN pidx ELSE pidx - 1

\* C12: every pope of the list is attempted exactly once in list order, and
\* each pope whose turn is over is in exactly one of successes and failures.
C12_EveryPopeOnceInOrder ==
    bpc # "args" =>
        /\ attempts = SubSeq(plist, 1, pidx)
        /\ \A i \in 1..Len(plist) :
              CountIn(successes, plist[i]) + CountIn(FailedPopes, plist[i])
                  = (IF i <= Finished THEN 1 ELSE 0)
        /\ (bpc = "done" => attempts = plist)

\* C12 witness: a finished batch of at least two popes in which one pope
\* failed while fetching, one failed while upserting and one succeeded.
C12_Witness ==
    /\ bpc = "done"
    /\ Len(plist) >= 2
    /\ successes # <<>>
    /\ failures # <<>>
    /\ \E i \in 1..Len(failures) : failures[i][2] = "SystemExit"

\* C13: the exit status is non-zero exactly when some pope failed, and it is
\* decided only after every pope of the list was attempted.
C13_ExitStatus ==
    /\ exit_status # Running =>
        /\ (exit_status # 0) <=> (failures # <<>>)
        /\ attempts = plist
        /\ Finished = Len(plist)
    /\ bpc = "done" => exit_status # Running

\* C13 witness: a batch that ended with status 1 although a pope succeeded.
C13_Witness ==
    /\ exit_status = 1
    /\ successes # <<>>
    /\ Len(attempts) >= 2

\* ------------------------------------------------------------------------
\* Character strings: a string is a sequence of one-character strings.
\* ------------------------------------------------------------------------

CasePairs ==
    {<<"a", "A">>, <<"b", "B">>, <<"c", "C">>, <<"d", "D">>, <<"e", "E">>, <<"f", "F">>,
     <<"g", "G">>, <<"h", "H">>, <<"i", "I">>, <<"j", "J">>, <<"k", "K">>, <<"l", "L">>,
     <<"m", "M">>, <<"n", "N">>, <<"o", "O">>, <<"p", "P">>, <<"q", "Q">>, <<"r", "R">>,
     <<"s", "S">>, <<"t", "T">>, <<"u", "U">>, <<"v", "V">>, <<"w", "W">>, <<"x", "X">>,
     <<"y", "Y">>, <<"z", "Z">>}

LowerLetters == {p[1] : p \in CasePairs}
UpperLetters == {p[2] : p \in CasePairs}
Digits == {"0", "1", "2", "3", "4", "5", "6", "7", "8", "9"}
Spaces == {" "}

\* str.lower and str.upper on one character.
ToLower(c) == IF c \in UpperLetters THEN (CHOOSE p \in CasePairs : p[2] = c)[1] ELSE c
ToUpper(c) == IF c \in LowerLetters THEN (CHOOSE p \in CasePairs : p[1] = c)[2] ELSE c

LowerChars(s) == [i \in 1..Len(s) |-> ToLower(s[i])]
UpperChars(s) == [i \in 1..Len(s) |-> ToUpper(s[i])]

\* str.strip: drop leading and trailing whitespace.
StripChars(s) ==
    LET keep == {i \in 1..Len(s) : s[i] \notin Spaces}
    IN  IF keep = {} THEN <<>>
        ELSE LET lo == CHOOSE i \in keep : \A j \in keep : i <= j
                 hi == CHOOSE i \in keep : \A j \in keep : j <= i
             IN  SubSeq(s, lo, hi)

\* str.isalpha: non-empty and letters only.
IsAlpha(s) == s # <<>> /\ \A i \in 1..Len(s) : s[i] \in LowerLetters \cup UpperLetters

\* All strings over an alphabet up to a length.
StringsOver(alphabet, n) == UNION {[1..k -> alphabet] : k \in 0..n}

\* ------------------------------------------------------------------------
\* One run of fetch_speeches_to_feather (step04, lines 405-607): argument
\* validation, directory and landing page, then the per-year loop.
\* ------------------------------------------------------------------------

MaxLangLen == 3       \* longest lang argument
MaxSecLen == 2        \* longest section argument
MaxCap == 2           \* largest max_n_speeches
MaxSpeeches == 2      \* most speeches one year lists

VARIABLES
    rpc,          \* "call", "validated", "found", "years", "speeches", "raised", "returned"
    args,         \* [lang, section, years, max_n_speeches] as passed in
    outcome,      \* Null, or the exception that ended the run
    nhttp,        \* HTTP requests issued so far
    ndb,          \* database accesses so far
    cap,          \* the local max_n_speeches: <<>> for None, <<n>> for n
    year_rows,    \* years still to visit, ascending
    speeches,     \* number of speeches enumerated for the current year
    si,           \* loop index in the current year
    taken,        \* per visited year: speeches that passed the cap test
    nrows         \* len(rows)

runvars == <<rpc, args, outcome, nhttp, ndb, cap, year_rows, speeches, si, taken, nrows>>

LangChars == {"e", "N", "1", " "}
SectionChars == {"a", "B", "1", "-", " ", "_"}
LangArgs == StringsOver(LangChars, MaxLangLen)
SectionArgs == StringsOver(SectionChars, MaxSecLen)
YearSets == {{}, {2020}, {2020, 2021}}
CapArgs == {<<>>} \cup {<<n>> : n \in 0..MaxCap}

\* Variant of LangAccepted without the length test.
LangAcceptedAnyLength(lang) == IsAlpha(UpperChars(StripChars(lang)))

\* step04, lines 417-419: want_lang = lang.strip().upper() must be two letters.
LangAccepted(lang) ==
    LET want == UpperChars(StripChars(lang))
    IN  Len(want) = 2 /\ IsAlpha(want)

\* step02, lines 52-56: s = section.strip().lower() must match
\* ^[a-z][a-z0-9-]*$ ; the result is <<ok, s>>.
_sanitize_section(section) ==
    LET s == LowerChars(StripChars(section))
    IN  IF /\ s # <<>>
           /\ s[1] \in LowerLetters
           /\ \A i \in 2..Len(s) : s[i] \in LowerLetters \cup Digits \cup {"-"}
        THEN <<TRUE, s>> ELSE <<FALSE, s>>

\* Ascending list of a set of years (sorted()).
SortedYears(ys) ==
    IF ys = {} THEN <<>>
    ELSE LET lo == CHOOSE y \in ys : \A z \in ys : y <= z
             hi == CHOOSE y \in ys : \A z \in ys : z <= y
             Member(y) == y \in ys
         IN  SelectSeq([i \in 1..(hi - lo + 1) |-> lo + i - 1], Member)

RunInit ==
    /\ rpc = "call"
    /\ args = [lang |-> <<>>, section |-> <<>>, years |-> {}, max_n_speeches |-> <<>>]
    /\ outcome = Null
    /\ nhttp = 0
    /\ ndb = 0
    /\ cap = <<>>
    /\ year_rows = <<>>
    /\ speeches = 0
    /\ si = 0
    /\ taken = <<>>
    /\ nrows = 0

\* step04, lines 417-424: the three argument checks, in this order.
Validate(lang, section, years, max_n) ==
    /\ rpc = "call"
    /\ args' = [lang |-> lang, section |-> section, years |-> years, max_n_speeches |-> max_n]
    /\ cap' = max_n
    /\ IF ~LangAccepted(lang)
          THEN rpc' = "raised" /\ outcome' = "SystemExit: Bad --lang value"
       ELSE IF ~_sanitize_section(section)[1]
          THEN rpc' = "raised" /\ outcome' = "ValueError: Invalid section"
       ELSE IF years = {}
          THEN rpc' = "raised" /\ outcome' = "SystemExit: No valid years"
       ELSE rpc' = "validated" /\ outcome' = Null
    /\ UNCHANGED <<nhttp, ndb, year_rows, speeches, si, taken, nrows>>

\* step04, lines 426-430: GET of the pope index, then the name lookup.
FetchDirectory(found) ==
    /\ rpc = "validated"
    /\ nhttp' = nhttp + 1
    /\ IF found THEN rpc' = "found" /\ outcome' = Null
                ELSE rpc' = "raised" /\ outcome' = "SystemExit: Pope not found"
    /\ UNCHANGED <<args, ndb, cap, year_rows, speeches, si, taken, nrows>>

\* step04, lines 432-443: GET of the landing page; ys are the requested
\* years the page links to.
FetchMain(ys) ==
    /\ rpc = "found"
    /\ ys \subseteq args.years
    /\ nhttp' = nhttp + 1
    /\ year_rows' = SortedYears(ys)
    /\ IF ys = {} THEN rpc' = "raised" /\ outcome' = "SystemExit: No year index pages"
                  ELSE rpc' = "years" /\ outcome' = Null
    /\ UNCHANGED <<args, ndb, cap, speeches, si, taken, nrows>>

\* step04, lines 446-461: GET of the next year index, n speeches enumerated;
\* an empty year is passed over, and a cap of None becomes this year's length.
FetchYearIndex(n) ==
    /\ rpc = "years"
    /\ year_rows # <<>>
    /\ nhttp' = nhttp + 1
    /\ IF n = 0
          THEN /\ year_rows' = Tail(year_rows)
               /\ UNCHANGED <<rpc, cap, speeches, si, taken>>
          ELSE /\ speeches' = n
               /\ cap' = IF cap = <<>> THEN <<n>> ELSE cap
               /\ si' = 0
               /\ taken' = Append(taken, 0)
               /\ rpc' = "speeches"
               /\ UNCHANGED year_rows
    /\ UNCHANGED <<args, outcome, ndb, nrows>>

\* step04, lines 462-576: one speech passes the cap test; the database is
\* asked whether its URL is stored, and unless it is the speech is fetched and
\* its row appended.
ProcessSpeech ==
    /\ rpc = "speeches"
    /\ si < speeches
    /\ si < cap[1]
    /\ si' = si + 1
    /\ taken' = [taken EXCEPT ![Len(taken)] = @ + 1]
    /\ ndb' = ndb + 1
    /\ \E url \in {UrlOf(t) : t \in Titles} :
          IF speech_url_exists_in_db(url)
             THEN UNCHANGED <<nhttp, nrows>>
             ELSE nhttp' = nhttp + 1 /\ nrows' = nrows + 1
    /\ UNCHANGED <<rpc, args, outcome, cap, year_rows, speeches>>

\* step04, lines 462-464: the loop of the year ends, by exhaustion or by
\* the break of the cap test.
EndYear ==
    /\ rpc = "speeches"
    /\ (si >= speeches \/ si >= cap[1])
    /\ year_rows' = Tail(year_rows)
    /\ rpc' = "years"
    /\ UNCHANGED <<args, outcome, nhttp, ndb, cap, speeches, si, taken, nrows>>

\* step04, lines 580-607: no rows is an error, otherwise the rows are returned.
Finish ==
    /\ rpc = "years"
    /\ year_rows = <<>>
    /\ IF nrows = 0 THEN rpc' = "raised" /\ outcome' = "SystemExit: No speeches collected"
                    ELSE rpc' = "returned" /\ outcome' = Null
    /\ UNCHANGED <<args, nhttp, ndb, cap, year_rows, speeches, si, taken, nrows>>

\* The section names the regular expression ^[a-z][a-z0-9-]*$ describes.
C14_SectionName(s) ==
    /\ Len(s) >= 1
    /\ s[1] \in LowerLetters
    /\ \A i \in 1..Len(s) : s[i] \in LowerLetters \/ s[i] \in Digits \/ s[i] = "-"

\* Exactly two letters.
C14_TwoLetters(s) == Len(s) = 2 /\ \A i \in 1..Len(s) : ToLower(s[i]) \in LowerLetters

RECURSIVE SumSeq(_)
SumSeq(q) == IF q = <<>> THEN 0 ELSE q[1] + SumSeq(Tail(q))

\* C15: with a cap N given, one run processes at most N speeches in total,
\* over all requested years together.
C15_CapBoundsTheRun ==
    (rpc # "call" /\ args.max_n_speeches # <<>>)
        => /\ SumSeq(taken) <= args.max_n_speeches[1]
           /\ nrows <= args.max_n_speeches[1]

\* C28: with no cap given, when the loop of a year ends every speech the
\* year enumerated has been taken up (and, unless its url is stored,
\* fetched into a row), however many speeches another year had.
C28_UncappedYearIsComplete ==
    (rpc = "speeches" /\ args.max_n_speeches = <<>> /\ (si >= speeches \/ si >= cap[1]))
        => taken[Len(taken)] = speeches

\* ------------------------------------------------------------------------
\* One HTTP GET of the pipeline. The year index, month page, speech page and
\* translation candidate go through the module session with its Retry
\* adapter (step03 lines 31-69, step04 lines 55-106); the pope index
\* (step01 lines 121-134) and the landing page (step02 lines 42-47) are
\* plain requests.get calls.
\* ------------------------------------------------------------------------

RetryTotal == 6

VARIABLES
    hpc,          \* "idle", "wait", "done"
    hkind,        \* which GET
    retries_left, \* what is left of Retry.total
    nattempts,    \* requests sent for this GET
    hlast,        \* last response
    hresult       \* Null, "page" or the exception raised to the caller

httpvars == <<hpc, hkind, retries_left, nattempts, hlast, hresult>>

GetKinds == {"pope index", "pope landing page", "year index", "month page",
             "speech page", "translation candidate"}

\* status_forcelist of the Retry object, plus connect and read timeouts.
TransientStatus == {"429", "500", "502", "503", "504"}
Timeouts == {"connect timeout", "read timeout"}
Responses == {"200", "404"} \cup TransientStatus \cup Timeouts

\* Retries the transport grants a GET: Retry(total=6) on the session,
\* none for requests.get.
RetriesOf(kind) ==
    IF kind \in {"pope index", "pope landing page"} THEN 0 ELSE RetryTotal

HttpInit ==
    /\ hpc = "idle"
    /\ hkind = Null
    /\ retries_left = 0
    /\ nattempts = 0
    /\ hlast = Null
    /\ hresult = Null

\* The GET is issued.
StartGet(kind) ==
    /\ hpc \in {"idle", "done"}
    /\ hkind' = kind
    /\ retries_left' = RetriesOf(kind)
    /\ nattempts' = 0
    /\ hlast' = Null
    /\ hresult' = Null
    /\ hpc' = "wait"

\* One request is answered. A transient answer is retried while retries are
\* left; otherwise raise_for_status or the transport raises, or the page is
\* returned.
Respond(resp) ==
    /\ hpc = "wait"
    /\ nattempts' = nattempts + 1
    /\ hlast' = resp
    /\ IF resp \in TransientStatus \cup Timeouts /\ retries_left > 0
          THEN /\ retries_left' = retries_left - 1
               /\ UNCHANGED <<hpc, hresult>>
          ELSE /\ hpc' = "done"
               /\ hresult' = IF resp = "200" THEN "page"
                             ELSE IF resp \in Timeouts THEN "ConnectionError"
                             ELSE "HTTPError"
               /\ UNCHANGED retries_left
    /\ UNCHANGED hkind

\* C16: every GET of the pipeline, the pope index and the landing page
\* included, is retried on a transient failure: a fetch that ends on a
\* transient failure has sent more than one request, at most RetryTotal + 1,
\* and ends with an error.
C16_EveryGetRetries ==
    /\ nattempts <= RetryTotal + 1
    /\ (hpc = "done" /\ hlast \in TransientStatus \cup Timeouts)
          => (nattempts > 1 /\ hresult \in {"HTTPError", "ConnectionError"})

\* ------------------------------------------------------------------------
\* Speech enumeration, step03: the stubs of one index page and the month
\* traversal of the section "speeches". The two variables hold the call of a
\* function and what it returned.
\* ------------------------------------------------------------------------

MaxItems == 2         \* most list items on an index page
MaxMonthItems == 2    \* most list items on a month page
MaxMonthLinks == 2    \* most month anchors on a year page

VARIABLES
    call,         \* [fn |-> name, ...arguments]
    result        \* the value returned

fnvars == <<call, result>>

NoCall == [fn |-> Null]

FnInit ==
    /\ call = NoCall
    /\ result = Null

Slugs == {"francesco", "benedict-xvi"}
SectionNames == {"speeches", "angelus"}
Docs == {"d1", "d2"}
ItemTitles == {"t1", "t2"}

\* href values of the h2 anchors: relative to the page, or with a full path.
Hrefs ==
    [form : {"relative"}, slug : {Null}, section : {Null}, doc : Docs]
        \cup [form : {"rooted"}, slug : Slugs, section : SectionNames, doc : Docs]

\* li elements under .documento ul: some have no h2 a[href].
ListItems ==
    {[has_anchor |-> FALSE, href |-> Null, title |-> Null]}
        \cup [has_anchor : {TRUE}, href : Hrefs, title : ItemTitles]

IndexPages == UNION {[1..n -> ListItems] : n \in 0..MaxItems}

\* The index page URL: /content/<slug>/en/<section>/<year>[.index].html
IndexUrls == [slug : Slugs, section : SectionNames, index_suffix : BOOLEAN]

\* urljoin(year_index_url, href): a relative href is resolved against the
\* directory of the page, a rooted one replaces the path; the result is
\* always absolute.
urljoin(base_url, href) ==
    IF href.form = "relative"
       THEN [absolute |-> TRUE, slug |-> base_url.slug, section |-> base_url.section,
             doc |-> href.doc]
       ELSE [absolute |-> TRUE, slug |-> href.slug, section |-> href.section,
             doc |-> href.doc]

\* "/content/<pope_slug>/" in abs_url
HasSlug(abs_url, pope_slug) == abs_url.slug = pope_slug

\* "/<sec>/" in abs_url: any path segment, the slug included.
HasSection(abs_url, sec) == abs_url.section = sec \/ abs_url.slug = sec

\* Variant of SeenBefore: nothing counts as seen.
NeverSeen(items, abs_url) == FALSE

\* step03, lines 110-112: abs_url in seen.
SeenBefore(items, abs_url) == \E i \in 1..Len(items) : items[i].url = abs_url

\* step03, lines 71-115.
RECURSIVE extract_speeches_from_year_index(_, _, _, _)
extract_speeches_from_year_index(page, year_index_url, pope_slug, sec) ==
    IF page = <<>> THEN <<>>
    ELSE LET items == extract_speeches_from_year_index(SubSeq(page, 1, Len(page) - 1),
                                                       year_index_url, pope_slug, sec)
             li == page[Len(page)]
         IN  IF ~li.has_anchor THEN items
             ELSE LET abs_url == urljoin(year_index_url, li.href)
                  IN  IF ~HasSlug(abs_url, pope_slug) THEN items
                      ELSE IF ~HasSection(abs_url, sec) THEN items
                      ELSE IF SeenBefore(items, abs_url) THEN items
                      ELSE Append(items, [title |-> li.title, url |-> abs_url])

\* One call of extract_speeches_from_year_index.
ExtractStubs(page, year_index_url, pope_slug, sec) ==
    /\ call.fn = Null
    /\ call' = [fn |-> "extract_speeches_from_year_index", page |-> page,
                year_index_url |-> year_index_url, pope_slug |-> pope_slug, section |-> sec]
    /\ result' = extract_speeches_from_year_index(page, year_index_url, pope_slug, sec)

\* Positions of the page whose anchor resolves to url and passes both filters.
C18_Occurrences(url) ==
    {j \in 1..Len(call.page) :
        /\ call.page[j].has_anchor
        /\ urljoin(call.year_index_url, call.page[j].href) = url}

C18_First(url) == CHOOSE j \in C18_Occurrences(url) : \A i \in C18_Occurrences(url) : j <= i

\* C18: every stub of one index page has an absolute URL that contains
\* /content/<pope_slug>/ and /<section>/, no two stubs share a URL, and a
\* stub is the first occurrence of its URL in page order.
C18_StubsOfOnePage ==
    call.fn = "extract_speeches_from_year_index" =>
        /\ \A k \in 1..Len(result) :
              /\ result[k].url.absolute
              /\ HasSlug(result[k].url, call.pope_slug)
              /\ HasSection(result[k].url, call.section)
              /\ C18_Occurrences(result[k].url) # {}
              /\ result[k].title = call.page[C18_First(result[k].url)].title
        /\ \A k, l \in 1..Len(result) :
              /\ (k # l => result[k].url # result[l].url)
              /\ (k < l => C18_First(result[k].url) < C18_First(result[l].url))

\* C18 witness: a page listing the same URL twice with different titles,
\* once through a relative and once through a rooted href, gave one stub.
C18_Witness ==
    /\ call.fn = "extract_speeches_from_year_index"
    /\ Len(call.page) = 2
    /\ call.page[1].has_anchor /\ call.page[2].has_anchor
    /\ call.page[1].href.form # call.page[2].href.form
    /\ call.page[1].title # call.page[2].title
    /\ Len(result) = 1
    /\ result[1].title = call.page[1].title

\* Month anchors of a year page, by the parts the pattern of step03 line 131
\* looks at.
MonthNames == {"january", "february"}
MonthAnchors ==
    [slug : {"francesco"}, year : {"2020"}, month : MonthNames]
        \cup {[slug |-> "francesco", year |-> "2019", month |-> "january"]}
MonthAnchorLists == UNION {[1..n -> MonthAnchors] : n \in 0..MaxMonthLinks}

\* step03, lines 118-146: month URLs in page order, de-duplicated.
RECURSIVE extract_month_links_for_speeches(_, _, _)
extract_month_links_for_speeches(anchors, pope_slug, year) ==
    IF anchors = <<>> THEN <<>>
    ELSE LET out == extract_month_links_for_speeches(SubSeq(anchors, 1, Len(anchors) - 1),
                                                     pope_slug, year)
             a == anchors[Len(anchors)]
         IN  IF a.slug # pope_slug \/ a.year # year THEN out
             ELSE IF \E i \in 1..Len(out) : out[i] = a.month THEN out
             ELSE Append(out, a.month)

\* Month pages: list items that point into the section, and one that does not.
MonthItems ==
    {[has_anchor |-> TRUE,
      href |-> [form |-> "rooted", slug |-> "francesco", section |-> s, doc |-> d],
      title |-> "t1"] : s \in {"speeches"}, d \in Docs}
        \cup {[has_anchor |-> TRUE,
               href |-> [form |-> "rooted", slug |-> "francesco", section |-> "angelus",
                         doc |-> "d1"],
               title |-> "t1"]}
MonthPages == UNION {[1..n -> MonthItems] : n \in 0..MaxMonthItems}
YearPages == UNION {[1..n -> MonthItems] : n \in 0..1}

\* URL of a month page: /content/<slug>/en/speeches/<year>/<month>.html
MonthUrl(pope_slug) == [slug |-> pope_slug, section |-> "speeches", index_suffix |-> FALSE]

RECURSIVE ConcatAll(_)
ConcatAll(qs) == IF qs = <<>> THEN <<>> ELSE qs[1] \o ConcatAll(Tail(qs))

\* step03, lines 149-176. idx is [items, anchors] of the year index page, alt
\* the same for its non-index variant, fetcher maps a month to its page. The
\* value is [stubs, fetched].
collect_speeches_for_year_index(idx, idx_url, pope_slug, section, year, alt, fetcher) ==
    LET on_page == extract_speeches_from_year_index(idx.items, idx_url, pope_slug, section)
    IN  IF on_page = <<>> /\ section = "speeches"
           THEN LET on_idx == extract_month_links_for_speeches(idx.anchors, pope_slug, year)
                    use_alt == on_idx = <<>> /\ idx_url.index_suffix
                    month_urls == IF use_alt
                                     THEN extract_month_links_for_speeches(alt.anchors,
                                                                           pope_slug, year)
                                     ELSE on_idx
                    per_month == [i \in 1..Len(month_urls) |->
                                     extract_speeches_from_year_index(
                                         fetcher[month_urls[i]], MonthUrl(pope_slug),
                                         pope_slug, section)]
                IN  [stubs |-> on_page \o ConcatAll(per_month),
                     fetched |-> (IF use_alt THEN <<"alt">> ELSE <<>>) \o month_urls]
           ELSE [stubs |-> on_page, fetched |-> <<>>]

\* One call of collect_speeches_for_year_index.
CollectSpeeches(idx, idx_url, section, alt, fetcher) ==
    /\ call.fn = Null
    /\ call' = [fn |-> "collect_speeches_for_year_index", idx |-> idx, idx_url |-> idx_url,
                pope_slug |-> "francesco", section |-> section, year |-> "2020",
                alt |-> alt, fetcher |-> fetcher]
    /\ result' = collect_speeches_for_year_index(idx, idx_url, "francesco", section, "2020",
                                                 alt, fetcher)

\* Stubs of the page the fetcher returns for month m.
C17_StubsOfMonth(m) ==
    extract_speeches_from_year_index(call.fetcher[m], MonthUrl(call.pope_slug),
                                     call.pope_slug, call.section)

\* C17: for the section "speeches", when the year index page yields no
\* stub, every discovered month page is fetched and the stubs returned are the
\* union of the month pages' stubs, with no URL more than once, also when
\* two month pages list the same URL.
C17_MonthUnionHasNoRepeats ==
    (/\ call.fn = "collect_speeches_for_year_index"
     /\ call.section = "speeches"
     /\ extract_speeches_from_year_index(call.idx.items, call.idx_url, call.pope_slug,
                                         call.section) = <<>>)
        => /\ \A k, l \in 1..Len(result.stubs) :
                 k # l => result.stubs[k].url # result.stubs[l].url
           /\ \A m \in MonthNames :
                 (\E i \in 1..Len(result.fetched) : result.fetched[i] = m)
                     => \A j \in 1..Len(C17_StubsOfMonth(m)) :
                           \E k \in 1..Len(result.stubs) :
                               result.stubs[k] = C17_StubsOfMonth(m)[j]

\* ------------------------------------------------------------------------
\* Year links of the pope landing page, step02.
\* ------------------------------------------------------------------------

MaxAnchors == 3       \* most anchors on the landing page

\* Anchors by the parts of the href that _make_year_href_re and
\* _candidate_anchors look at: /content/<slug>/<lang>/<section>/<year><ext>,
\* and whether the anchor sits inside an element of class "open".
MainAnchors ==
    [in_open : BOOLEAN, slug : {"francesco"}, lang : {"en"}, section : {"angelus"},
     year : {2020, 2021}, ext : {".html", ".index.html"}]
        \cup {[in_open |-> FALSE, slug |-> "benedict-xvi", lang |-> "en",
               section |-> "angelus", year |-> 2020, ext |-> ".html"],
              [in_open |-> FALSE, slug |-> "francesco", lang |-> "it",
               section |-> "angelus", year |-> 2020, ext |-> ".html"],
              [in_open |-> FALSE, slug |-> "francesco", lang |-> "en",
               section |-> "speeches", year |-> 2020, ext |-> ".html"],
              [in_open |-> FALSE, slug |-> "francesco", lang |-> "en",
               section |-> "angelus", year |-> 2020, ext |-> ".pdf"],
              [in_open |-> FALSE, slug |-> "francesco", lang |-> "en",
               section |-> "angelus", year |-> 2019, ext |-> ".html"]}

MainPages == UNION {[1..n -> MainAnchors] : n \in 0..MaxAnchors}
RequestedYears == {{2020}, {2021}, {2020, 2021}}

\* step02, lines 58-65: the href ends in
\* /content/<slug>/en/<sec>/<4 digits>[.index].htm[l]
YearHrefMatches(a, sec) ==
    /\ a.lang = "en"
    /\ a.section = sec
    /\ a.ext \in {".html", ".htm", ".index.html", ".index.htm"}

\* Keep the members of a list that satisfy a test given as a set of positions.
RECURSIVE SelectAt(_, _, _)
SelectAt(q, keep, n) ==
    IF n = 0 THEN <<>>
    ELSE IF n \in keep THEN Append(SelectAt(q, keep, n - 1), q[n])
    ELSE SelectAt(q, keep, n - 1)

\* step02, lines 127-131: the anchors under .open whose href ends in
\* .index.html or .index.htm, or every anchor when there is none.
_candidate_anchors(page) ==
    LET scoped == {i \in 1..Len(page) :
                      page[i].in_open /\ page[i].ext \in {".index.html", ".index.htm"}}
    IN  IF scoped # {} THEN SelectAt(page, scoped, Len(page)) ELSE page

\* urljoin(_BASE, href) of a rooted href.
AbsYearUrl(a) ==
    [absolute |-> TRUE, slug |-> a.slug, lang |-> a.lang, section |-> a.section,
     year |-> a.year, ext |-> a.ext]

\* Variant of KeepFirst: a later anchor of the same year replaces the entry.
KeepLast(found, year, abs_url) ==
    [y \in DOMAIN found \cup {year} |-> IF y = year THEN abs_url ELSE found[y]]

\* step02, lines 164-165: if year not in found: found[year] = abs_url
KeepFirst(found, year, abs_url) ==
    [y \in DOMAIN found \cup {year} |-> IF y \in DOMAIN found THEN found[y] ELSE abs_url]

\* step02, lines 152-165: the dictionary found after the loop over the
\* first n candidate anchors.
RECURSIVE FoundAfter(_, _, _, _, _)
FoundAfter(anchors, n, pope_slug, years, sec) ==
    IF n = 0 THEN <<>>
    ELSE LET found == FoundAfter(anchors, n - 1, pope_slug, years, sec)
             a == anchors[n]
         IN  IF ~YearHrefMatches(a, sec) THEN found
             ELSE IF a.slug # pope_slug THEN found
             ELSE IF a.year \notin years THEN found
             ELSE KeepFirst(found, a.year, AbsYearUrl(a))

\* step02, lines 148-166.
extract_year_links_from_main(page, pope_slug, years, sec) ==
    LET anchors == _candidate_anchors(page)
        found == FoundAfter(anchors, Len(anchors), pope_slug, years, sec)
        order == SortedYears(DOMAIN found)
    IN  [i \in 1..Len(order) |-> [year |-> order[i], url |-> found[order[i]]]]

\* One call of extract_year_links_from_main.
ExtractYearLinks(page, pope_slug, years, sec) ==
    /\ call.fn = Null
    /\ call' = [fn |-> "extract_year_links_from_main", page |-> page,
                pope_slug |-> pope_slug, years |-> years, section |-> sec]
    /\ result' = extract_year_links_from_main(page, pope_slug, years, sec)

\* Positions, among the candidate anchors of the page, of the anchors that
\* match year y for the target pope and section.
C19_Matching(y) ==
    {i \in 1..Len(_candidate_anchors(call.page)) :
        LET a == _candidate_anchors(call.page)[i]
        IN  /\ a.year = y
            /\ a.slug = call.pope_slug
            /\ a.section = call.section
            /\ a.lang = "en"
            /\ a.ext \in {".html", ".htm", ".index.html", ".index.htm"}}

MaxNameLen == 5       \* longest generated display name

NameChars == {"P", "a", "V", "i", " "}

ExampleNames ==
    {<<"F", "r", "a", "n", "c", "i", "s">>,
     <<"J", "o", "h", "n", " ", "P", "a", "u", "l", " ", "I", "I">>,
     <<"R", "O", "M", "A", "N", " ", "C", "U", "R", "I", "A">>,
     <<"P", "a", "u", "l", " ", "v", "i">>}

DisplayNames == StringsOver(NameChars, MaxNameLen) \cup ExampleNames

RomanLetters == {"I", "V", "X", "L", "C", "D", "M"}

\* step01, lines 24 and 28-29: ^[IVXLCDM]+$ compiled with re.IGNORECASE.
_is_roman(token) ==
    token # <<>> /\ \A i \in 1..Len(token) : ToUpper(token[i]) \in RomanLetters

\* step01, lines 25 and 31-32: ^[A-Z][a-z]+$
_is_titlecase_word(token) ==
    /\ Len(token) >= 2
    /\ token[1] \in UpperLetters
    /\ \A i \in 2..Len(token) : token[i] \in LowerLetters

\* re.sub(r"\s+", " ", s): a whitespace character that follows another one
\* is dropped.
RECURSIVE CollapseSpaces(_)
CollapseSpaces(s) ==
    IF Len(s) <= 1 THEN s
    ELSE LET front == CollapseSpaces(SubSeq(s, 1, Len(s) - 1))
             c == s[Len(s)]
         IN  IF c \in Spaces /\ s[Len(s) - 1] \in Spaces THEN front ELSE Append(front, c)

\* step01, lines 34-36.
papal_normalize_display_name(text) == CollapseSpaces(StripChars(text))

\* str.split(" ")
RECURSIVE SplitOnSpace(_)
SplitOnSpace(s) ==
    IF \A i \in 1..Len(s) : s[i] # " " THEN <<s>>
    ELSE LET k == CHOOSE i \in 1..Len(s) : s[i] = " " /\ \A j \in 1..(i - 1) : s[j] # " "
         IN  <<SubSeq(s, 1, k - 1)>> \o SplitOnSpace(SubSeq(s, k + 1, Len(s)))

\* step01, lines 38-57.
_looks_like_pope_display(name) ==
    LET n == papal_normalize_display_name(name)
        parts == SplitOnSpace(n)
    IN  IF n = <<>> THEN FALSE
        ELSE IF Len(parts) = 1 THEN _is_titlecase_word(parts[1])
        ELSE IF ~_is_roman(parts[Len(parts)]) THEN FALSE
        ELSE \A i \in 1..(Len(parts) - 1) : _is_titlecase_word(parts[i])

\* One call of _looks_like_pope_display.
LooksLikePope(name) ==
    /\ call.fn = Null
    /\ call' = [fn |-> "_looks_like_pope_display", name |-> name]
    /\ result' = _looks_like_pope_display(name)

\* A capitalized word: an upper-case letter followed by lower-case letters.
C20_Capitalized(w) ==
    /\ Len(w) >= 2
    /\ w[1] \in UpperLetters
    /\ \A i \in 2..Len(w) : w[i] \in LowerLetters

\* A Roman numeral matching ^[IVXLCDM]+$.
C20_RomanNumeral(w) == Len(w) >= 1 /\ \A i \in 1..Len(w) : w[i] \in RomanLetters

\* Words of a name: the maximal runs of characters other than whitespace.
C20_Words(s) ==
    LET starts == {i \in 1..Len(s) : s[i] # " " /\ (i = 1 \/ s[i - 1] = " ")}
        EndOf(i) == CHOOSE j \in i..Len(s) :
                        /\ \A k \in i..j : s[k] # " "
                        /\ (j = Len(s) \/ s[j + 1] = " ")
    IN  {SubSeq(s, i, EndOf(i)) : i \in starts}

C20_LastWord(s) ==
    LET last == CHOOSE i \in 1..Len(s) :
                    /\ s[i] # " " /\ (i = 1 \/ s[i - 1] = " ")
                    /\ \A j \in (i + 1)..Len(s) : ~(s[j] # " " /\ s[j - 1] = " ")
        stop == CHOOSE j \in last..Len(s) :
                    /\ \A k \in last..j : s[k] # " "
                    /\ (j = Len(s) \/ s[j + 1] = " ")
    IN  [from |-> last, word |-> SubSeq(s, last, stop)]

\* The shape the claim describes.
C20_PopeShape(s) ==
    LET starts == {i \in 1..Len(s) : s[i] # " " /\ (i = 1 \/ s[i - 1] = " ")}
    IN  \/ Cardinality(starts) = 1 /\ \A w \in C20_Words(s) : C20_Capitalized(w)
        \/ /\ Cardinality(starts) >= 2
           /\ C20_RomanNumeral(C20_LastWord(s).word)
           /\ \A w \in C20_Words(SubSeq(s, 1, C20_LastWord(s).from - 1)) : C20_Capitalized(w)

\* C20: a display name is accepted exactly when it is a single capitalized
\* word, or two or more words whose last is a Roman numeral in capital letters
\* and whose other words are capitalized; "Paul vi" is rejected.
C20_AcceptedExactlyPopeShape ==
    call.fn = "_looks_like_pope_display" => (result <=> C20_PopeShape(call.name))

\* ------------------------------------------------------------------------
\* Lookup of a pope in the directory, step01.
\* ------------------------------------------------------------------------

MaxQueryLen == 4      \* longest name looked up
MaxDirectory == 2     \* most records in the directory

QueryChars == {"P", "p", "a", "V", " "}
Queries == StringsOver(QueryChars, MaxQueryLen)

\* Display names of directory records: _papal_collect_english_content_links
\* keeps only normalized names that pass _looks_like_pope_display.
RecordNames == {<<"P", "a">>, <<"P", "a", "a">>, <<"P", "a", " ", "V">>}

\* Directories: records in page order, de-duplicated by slug (the slug of
\* a record is its position here).
Directories ==
    UNION {{[i \in 1..n |-> [display_name |-> f[i], slug |-> i]] : f \in [1..n -> RecordNames]}
              : n \in 0..MaxDirectory}

\* Value standing for None.
NoPope == [display_name |-> <<>>, slug |-> 0]

\* Variant of FirstOf: the last member is taken.
LastOf(hits) == CHOOSE i \in hits : \A j \in hits : j <= i

\* The for loop returns at the first hit.
FirstOf(hits) == CHOOSE i \in hits : \A j \in hits : i <= j

\* step01, lines 136-145.
papal_find_by_display_name(directory, name) ==
    LET key == LowerChars(papal_normalize_display_name(name))
        hits == {i \in 1..Len(directory) :
                    LowerChars(papal_normalize_display_name(directory[i].display_name)) = key}
    IN  IF hits = {} THEN NoPope ELSE directory[FirstOf(hits)]

\* One call of papal_find_by_display_name.
FindPope(directory, name) ==
    /\ call.fn = Null
    /\ call' = [fn |-> "papal_find_by_display_name", popes |-> directory, name |-> name]
    /\ result' = papal_find_by_display_name(directory, name)

\* Trimmed, whitespace runs collapsed, lower-cased.
C21_Folded(s) == LowerChars(CollapseSpaces(StripChars(s)))

C21_Matches == {i \in 1..Len(call.popes) :
                   C21_Folded(call.popes[i].display_name) = C21_Folded(call.name)}

\* C21: the lookup returns the first record in list order whose display
\* name equals the query after trimming, collapsing whitespace and
\* lower-casing both, and None when there is none, as for an empty list or an
\* empty query.
C21_FirstFoldedMatch ==
    call.fn = "papal_find_by_display_name" =>
        /\ C21_Matches = {} => result = NoPope
        /\ C21_Matches # {} =>
              /\ result \in {call.popes[i] : i \in C21_Matches}
              /\ \A i \in C21_Matches : result.slug <= i
        /\ (call.popes = <<>> \/ StripChars(call.name) = <<>>) => result = NoPope

\* C21 witness: two records match a query written in lower case between
\* blanks, and the first is returned.
C21_Witness ==
    /\ call.fn = "papal_find_by_display_name"
    /\ Len(call.name) = 4
    /\ call.name[1] = " " /\ call.name[2] = "p" /\ call.name[3] = "a" /\ call.name[4] = " "
    /\ Cardinality(C21_Matches) = 2
    /\ result = call.popes[1]

\* ------------------------------------------------------------------------
\* Year specifications, step02 parse_years.
\* ------------------------------------------------------------------------

MaxSpecLen == 5       \* longest year-spec string

YearSpecChars == {"1", "3", ",", "-", " "}
YearSpecs == StringsOver(YearSpecChars, MaxSpecLen)

\* str.split(sep): the pieces between the separators, empty ones included.
RECURSIVE SplitOn(_, _)
SplitOn(s, sep) ==
    IF \A i \in 1..Len(s) : s[i] # sep THEN <<s>>
    ELSE LET k == CHOOSE i \in 1..Len(s) : s[i] = sep /\ \A j \in 1..(i - 1) : s[j] # sep
         IN  <<SubSeq(s, 1, k - 1)>> \o SplitOn(SubSeq(s, k + 1, Len(s)), sep)

\* str.split(sep, 1) of a string that contains sep: <<before, after>> of the
\* first separator.
SplitOnce(s, sep) ==
    LET k == CHOOSE i \in 1..Len(s) : s[i] = sep /\ \A j \in 1..(i - 1) : s[j] # sep
    IN  <<SubSeq(s, 1, k - 1), SubSeq(s, k + 1, Len(s))>>

\* str.isdigit: non-empty and digits only.
IsDigit(s) == s # <<>> /\ \A i \in 1..Len(s) : s[i] \in Digits

DigitValue(c) ==
    CASE c = "0" -> 0 [] c = "1" -> 1 [] c = "2" -> 2 [] c = "3" -> 3 [] c = "4" -> 4
      [] c = "5" -> 5 [] c = "6" -> 6 [] c = "7" -> 7 [] c = "8" -> 8 [] c = "9" -> 9

\* int(s) of a digit string.
RECURSIVE IntOf(_)
IntOf(s) ==
    IF s = <<>> THEN 0
    ELSE 10 * IntOf(SubSeq(s, 1, Len(s) - 1)) + DigitValue(s[Len(s)])

\* Variant of RangeOf: a reversed range is empty, as range(lo, hi + 1) is
\* without the swap.
RangeNoSwap(lo, hi) == lo..hi

\* step02, lines 35-38: swap when lo > hi, then range(lo, hi + 1).
RangeOf(lo, hi) == IF lo > hi THEN hi..lo ELSE lo..hi

\* step02, lines 28-39: the years one part of the spec contributes.
YearsOfPart(raw) ==
    LET part == StripChars(raw)
    IN  IF part = <<>> THEN {}
        ELSE IF \E i \in 1..Len(part) : part[i] = "-"
            THEN LET a == StripChars(SplitOnce(part, "-")[1])
                     b == StripChars(SplitOnce(part, "-")[2])
                 IN  IF IsDigit(a) /\ IsDigit(b) THEN RangeOf(IntOf(a), IntOf(b)) ELSE {}
        ELSE IF IsDigit(part) THEN {IntOf(part)}
        ELSE {}

\* step02, lines 26-40.
parse_years(spec) ==
    LET parts == SplitOn(spec, ",")
    IN  SortedYears(UNION {YearsOfPart(parts[i]) : i \in 1..Len(parts)})

\* One call of parse_years.
ParseYears(spec) ==
    /\ call.fn = Null
    /\ call' = [fn |-> "parse_years", spec |-> spec]
    /\ result' = parse_years(spec)

\* The number a run of digit characters s[i..j] writes.
RECURSIVE C22_Number(_, _, _)
C22_Number(s, i, j) ==
    IF j < i THEN 0 ELSE 10 * C22_Number(s, i, j - 1) + DigitValue(s[j])

\* s[i..j] is blanks, digits, blanks.
C22_IsYear(s, i, j, p, q) ==
    /\ i <= p /\ p <= q /\ q <= j
    /\ \A k \in i..j : IF k \in p..q THEN s[k] \in Digits ELSE s[k] = " "

\* The parts of a spec: maximal stretches s[i..j] without a comma (j = i - 1
\* for an empty part).
C22_Parts(s) ==
    {<<i, j>> \in (1..(Len(s) + 1)) \X (0..Len(s)) :
        /\ j >= i - 1
        /\ \A k \in i..j : s[k] # ","
        /\ (i = 1 \/ s[i - 1] = ",")
        /\ (j = Len(s) \/ s[j + 1] = ",")}

\* What a part denotes: <<TRUE, years>> for a single year or a range,
\* <<FALSE, {}>> for anything else.
C22_Denotes(s, i, j) ==
    IF \E p, q \in i..j : C22_IsYear(s, i, j, p, q)
       THEN LET pq == CHOOSE pq \in (i..j) \X (i..j) : C22_IsYear(s, i, j, pq[1], pq[2])
            IN  <<TRUE, {C22_Number(s, pq[1], pq[2])}>>
    ELSE IF \E d \in i..j, p, q \in i..j, u, v \in i..j :
                /\ s[d] = "-"
                /\ C22_IsYear(s, i, d - 1, p, q)
                /\ C22_IsYear(s, d + 1, j, u, v)
       THEN LET w == CHOOSE w \in (i..j) \X (i..j) \X (i..j) \X (i..j) \X (i..j) :
                         /\ s[w[1]] = "-"
                         /\ C22_IsYear(s, i, w[1] - 1, w[2], w[3])
                         /\ C22_IsYear(s, w[1] + 1, j, w[4], w[5])
                a == C22_Number(s, w[2], w[3])
                b == C22_Number(s, w[4], w[5])
            IN  <<TRUE, {y \in 0..(a + b) : (a <= y /\ y <= b) \/ (b <= y /\ y <= a)}>>
    ELSE <<FALSE, {}>>

\* A spec made of comma-separated single years and ranges.
C22_WellFormed(s) == \A ij \in C22_Parts(s) : C22_Denotes(s, ij[1], ij[2])[1]

\* C22: for a spec made of comma-separated single years and ranges,
\* parse_years returns a strictly increasing list whose members are exactly
\* the single years and the members of the inclusive ranges, a reversed range
\* counting like the straight one.
C22_SortedUnion ==
    (call.fn = "parse_years" /\ C22_WellFormed(call.spec)) =>
        /\ \A k \in 1..(Len(result) - 1) : result[k] < result[k + 1]
        /\ {result[k] : k \in 1..Len(result)}
              = UNION {C22_Denotes(call.spec, ij[1], ij[2])[2] : ij \in C22_Parts(call.spec)}

\* C22 witness: a reversed range.
C22_Witness ==
    /\ call.fn = "parse_years"
    /\ Len(call.spec) = 3
    /\ call.spec[1] = "3" /\ call.spec[2] = "-" /\ call.spec[3] = "1"
    /\ result = <<1, 2, 3>>

\* ------------------------------------------------------------------------
\* Section names on their way into patterns, step02 and step03.
\* ------------------------------------------------------------------------

\* Variant of _make_year_href_re: the section is embedded as given.
EmbedUnchecked(section) == [raised |-> FALSE, sec |-> section]

\* step02, lines 58-65: sanitize, then embed the result in the pattern.
\* raised tells whether ValueError left the function, sec is the text embedded.
_make_year_href_re(section) ==
    IF _sanitize_section(section)[1]
       THEN [raised |-> FALSE, sec |-> _sanitize_section(section)[2]]
       ELSE [raised |-> TRUE, sec |-> <<>>]

\* The functions that put a section into a regular expression or a substring
\* test, and the statement with which each begins.
SectionUsers == {"extract_year_links_from_main", "extract_available_years_from_main",
                 "extract_speeches_from_year_index"}

\* step02 lines 135 and 150 (HREF_YEAR_RE = _make_year_href_re(section)),
\* step03 line 81 (sec = _sanitize_section(section)).
SectionEmbeddedBy(fn, section) ==
    IF fn \in {"extract_year_links_from_main", "extract_available_years_from_main"}
       THEN _make_year_href_re(section)
       ELSE IF _sanitize_section(section)[1]
               THEN [raised |-> FALSE, sec |-> _sanitize_section(section)[2]]
               ELSE [raised |-> TRUE, sec |-> <<>>]

\* One call of a function that uses a section.
UseSection(fn, section) ==
    /\ call.fn = Null
    /\ call' = [fn |-> fn, section |-> section]
    /\ result' = SectionEmbeddedBy(fn, section)

\* C23: a function that embeds a section in a pattern either raises, exactly
\* when the trimmed lower-cased section does not match ^[a-z][a-z0-9-]*$, or
\* embeds that trimmed lower-cased text; no other text reaches a pattern.
C23_OnlyValidatedSections ==
    call.fn \in SectionUsers =>
        /\ result.raised <=> ~C14_SectionName(LowerChars(StripChars(call.section)))
        /\ ~result.raised =>
              /\ result.sec = LowerChars(StripChars(call.section))
              /\ C14_SectionName(result.sec)

\* C23 witness: a section written with a capital and a trailing blank was
\* embedded in its trimmed lower-case form by the year-link extraction.
C23_Witness ==
    /\ call.fn = "extract_year_links_from_main"
    /\ Len(call.section) = 2
    /\ call.section[1] = "B" /\ call.section[2] = " "
    /\ ~result.raised
    /\ Len(result.sec) = 1
    /\ result.sec[1] = "b"

\* ------------------------------------------------------------------------
\* The texts table and its schema check (step05 DEFAULT_TABLE_SCHEMA,
\* database_helpers check_texts_table_schema).
\* ------------------------------------------------------------------------

\* Variant of DefaultTextsColumns: the language column is not created.
TextsColumnsWithoutLanguage ==
    <<"_texts_id", "pope_id", "section", "year", "date", "location", "title", "url",
      "text_content", "entry_creation_date">>

\* step05, lines 35-46: the columns of CREATE TABLE IF NOT EXISTS texts.
DefaultTextsColumns ==
    <<"_texts_id", "pope_id", "section", "year", "date", "location", "title", "language",
      "url", "text_content", "entry_creation_date">>

\* database_helpers, lines 126-138.
expected_columns ==
    <<"_texts_id", "pope_id", "section", "year", "date", "location", "title", "language",
      "url", "text_content", "entry_creation_date">>

\* A database file before the check: no texts table, or a texts table with
\* some columns.
NoTextsTable == [exists |-> FALSE, columns |-> <<>>]

Without(q, drop) == SelectAt(q, (1..Len(q)) \ drop, Len(q))

Swapped(q, i, j) ==
    [k \in 1..Len(q) |-> IF k = i THEN q[j] ELSE IF k = j THEN q[i] ELSE q[k]]

InsertedAt(q, i, c) == SubSeq(q, 1, i - 1) \o <<c>> \o SubSeq(q, i, Len(q))

TextsTables ==
    {NoTextsTable}
        \cup {[exists |-> TRUE, columns |-> Without(expected_columns, drop)] :
                 drop \in {d \in SUBSET (1..Len(expected_columns)) : Cardinality(d) <= 2}}
        \cup {[exists |-> TRUE, columns |-> SelectAt(Swapped(expected_columns, i, j),
                                                    1..Len(expected_columns),
                                                    Len(expected_columns))] :
                 i \in 1..Len(expected_columns), j \in 1..Len(expected_columns)}
        \cup {[exists |-> TRUE, columns |-> InsertedAt(expected_columns, i, "extra")] :
                 i \in 1..(Len(expected_columns) + 1)}

\* PRAGMA table_info("texts"): the column names in declared order, nothing
\* for a table that does not exist (database_helpers, lines 41-54).
get_column_names_in_table(db) == IF db.exists THEN db.columns ELSE <<>>

\* database_helpers, lines 116-141.
check_texts_table_schema(db) == get_column_names_in_table(db) = expected_columns

\* The database file is opened.
OpenDb(db) ==
    /\ call.fn = Null
    /\ call' = [fn |-> "connect", db |-> db, initialised |-> FALSE]
    /\ result' = Null

\* step05, lines 51-66: CREATE TABLE IF NOT EXISTS leaves an existing texts
\* table as it is.
EnsureDb ==
    /\ call.fn = "connect"
    /\ call' = [fn |-> "ensure_db_and_table",
                db |-> IF call.db.exists THEN call.db
                       ELSE [exists |-> TRUE, columns |-> DefaultTextsColumns],
                initialised |-> ~call.db.exists]
    /\ result' = Null

\* One call of check_texts_table_schema.
CheckSchema ==
    /\ call.fn \in {"connect", "ensure_db_and_table"}
    /\ call' = [call EXCEPT !.fn = "check_texts_table_schema"]
    /\ result' = check_texts_table_schema(call.db)

C24_Columns ==
    <<"_texts_id", "pope_id", "section", "year", "date", "location", "title", "language",
      "url", "text_content", "entry_creation_date">>

\* C24: the texts table ensure_db_and_table creates has exactly the eleven
\* columns in the stated order, so the schema check is true on it; the check is
\* false when a column is missing, extra or out of order, and when there is no
\* texts table.
C24_SchemaCheck ==
    /\ call.fn = "ensure_db_and_table" /\ call.initialised => call.db.columns = C24_Columns
    /\ call.fn = "check_texts_table_schema" =>
          /\ call.initialised => result = TRUE
          /\ result = (call.db.exists /\ call.db.columns = C24_Columns)

\* C24 witness: the check was made on a freshly initialised database.
C24_Witness ==
    /\ call.fn = "check_texts_table_schema"
    /\ call.initialised
    /\ result = TRUE

\* ------------------------------------------------------------------------
\* Speech identifiers, step04 make_speech_id.
\* ------------------------------------------------------------------------

MaxTitleLen == 2      \* longest title

SlugMaxLen == 40

\* _MONTHS_EN, step04 lines 378-381.
_MONTHS_EN ==
    [January |-> <<"0", "1">>, February |-> <<"0", "2">>, March |-> <<"0", "3">>,
     April |-> <<"0", "4">>, May |-> <<"0", "5">>, June |-> <<"0", "6">>,
     July |-> <<"0", "7">>, August |-> <<"0", "8">>, September |-> <<"0", "9">>,
     October |-> <<"1", "0">>, November |-> <<"1", "1">>, December |-> <<"1", "2">>]

\* Capitalized words that can stand between a day and a year.
MonthWords == DOMAIN _MONTHS_EN \cup {"Maggio", "Sunday"}

DayDigits == {"0", "1", "9"}
DayStrings == {<<a>> : a \in DayDigits} \cup {<<a, b>> : a \in DayDigits, b \in DayDigits}
YearStrings == {<<"2", "0", "2", "0">>, <<"1", "9", "7", "8">>}

\* Date texts by what _DATE_RE finds in them: None or empty, a text without a
\* "D Month YYYY" stretch, or the three groups of the first such stretch.
NoGroups == [d |-> <<>>, month |-> Null, y |-> <<>>]
DateTexts ==
    {[kind |-> "none", groups |-> NoGroups], [kind |-> "no match", groups |-> NoGroups]}
        \cup {[kind |-> "match", groups |-> [d |-> d, month |-> m, y |-> y]] :
                 d \in DayStrings, m \in MonthWords, y \in YearStrings}

Unknown == <<"u", "n", "k", "n", "o", "w", "n">>

\* str.zfill(2)
ZFill2(s) == IF Len(s) < 2 THEN <<"0">> \o s ELSE s

\* step04, line 389: _MONTHS_EN.get(month, "00")
MonthNumber(month) == IF month \in DOMAIN _MONTHS_EN THEN _MONTHS_EN[month] ELSE <<"0", "0">>

\* step04, lines 382-391.
_normalize_date_yyyymmdd(date_text) ==
    IF date_text.kind = "none" THEN Unknown
    ELSE IF date_text.kind = "no match" THEN Unknown
    ELSE date_text.groups.y \o MonthNumber(date_text.groups.month)
             \o ZFill2(date_text.groups.d)

TitleChars == {"A", "b", " ", "-"}
TitleTexts == StringsOver(TitleChars, MaxTitleLen)

\* Runs of characters that are no ASCII letter or digit become one "-".
RECURSIVE DashRuns(_)
DashRuns(s) ==
    IF s = <<>> THEN <<>>
    ELSE LET front == DashRuns(SubSeq(s, 1, Len(s) - 1))
             c == s[Len(s)]
             alnum == c \in LowerLetters \cup UpperLetters \cup Digits
         IN  IF alnum THEN Append(front, c)
             ELSE IF front # <<>> /\ front[Len(front)] = "-" THEN front
             ELSE Append(front, "-")

\* str.strip("-") and str.rstrip("-")
StripDashes(s) ==
    LET keep == {i \in 1..Len(s) : s[i] # "-"}
    IN  IF keep = {} THEN <<>>
        ELSE SubSeq(s, CHOOSE i \in keep : \A j \in keep : i <= j,
                       CHOOSE i \in keep : \A j \in keep : j <= i)
RStripDashes(s) ==
    LET keep == {i \in 1..Len(s) : s[i] # "-"}
    IN  IF keep = {} THEN <<>> ELSE SubSeq(s, 1, CHOOSE i \in keep : \A j \in keep : j <= i)

\* step04, lines 393-396 (titles are ASCII here).
_slugify(text) ==
    LET t == LowerChars(StripDashes(DashRuns(text)))
        u == IF t = <<>> THEN <<"u", "n", "t", "i", "t", "l", "e", "d">> ELSE t
    IN  RStripDashes(SubSeq(u, 1, IF Len(u) < SlugMaxLen THEN Len(u) ELSE SlugMaxLen))

\* step04, lines 398-402: the parts joined by "-"; short is the head of the
\* SHA-1 digest, a function of the url alone.
make_speech_id(pope_slug, section, date_text, title, url) ==
    [pope_slug |-> pope_slug, section |-> section,
     ymd |-> _normalize_date_yyyymmdd(date_text),
     title_slug |-> _slugify(title), short |-> [sha1_of |-> url]]

\* One call of make_speech_id.
MakeSpeechId(pope_slug, section, date_text, title, url) ==
    /\ call.fn = Null
    /\ call' = [fn |-> "make_speech_id", pope_slug |-> pope_slug, section |-> section,
                date_text |-> date_text, title |-> title, url |-> url]
    /\ result' = make_speech_id(pope_slug, section, date_text, title, url)

\* C25: the date component of an identifier is the literal "unknown", or
\* eight digits YYYYMMDD whose month part is in 01..12.
C25_DateComponent ==
    call.fn = "make_speech_id" =>
        \/ result.ymd = Unknown
        \/ /\ Len(result.ymd) = 8
           /\ \A i \in 1..8 : result.ymd[i] \in Digits
           /\ IntOf(SubSeq(result.ymd, 5, 6)) \in 1..12
\* ------------------------------------------------------------------------
\* Pope metadata of a landing page (step02, lines 49-125).  Texts of the
\* subtitle and of table values are sequences of characters; a label is a
\* sequence of words and separators.  An optional value is <<>> (None) or
\* <<v>>.
\* ------------------------------------------------------------------------
MaxSubtitleLen == 3
MaxMetaRows == 2

SubtitleChars == {"2", "t", " "}
SubtitleTexts == StringsOver(SubtitleChars, MaxSubtitleLen)

\* Words of labels, as written on a page and lowercased.
LabelWordPairs ==
    {<<"pope", "Pope">>, <<"number", "Number">>, <<"end", "End">>,
     <<"pontificate", "Pontificate">>, <<"beginning", "Beginning">>,
     <<"secular", "Secular">>, <<"name", "Name">>, <<"place", "Place">>,
     <<"of", "Of">>, <<"birth", "Birth">>, <<"born", "Born">>,
     <<"fine", "Fine">>, <<"pontificato", "Pontificato">>}

LowerWord(w) ==
    IF \E p \in LabelWordPairs : p[2] = w
    THEN (CHOOSE p \in LabelWordPairs : p[2] = w)[1]
    ELSE w

\* step02, lines 67-71: lowercase, drop trailing colons and whitespace,
\* collapse whitespace runs.
RECURSIVE DropTrailing(_)
DropTrailing(s) ==
    IF s # <<>> /\ s[Len(s)] \in {":", " "} THEN DropTrailing(SubSeq(s, 1, Len(s) - 1)) ELSE s

_norm_label(s) ==
    CollapseSpaces(DropTrailing(StripChars([i \in 1..Len(s) |-> LowerWord(s[i])])))

\* step02, lines 112-123: the labels of each field.
BeginLabels == {<<"beginning", " ", "pontificate">>, <<"inizio", " ", "pontificato">>,
                <<"début", " ", "du", " ", "pontificat">>}
EndLabels == {<<"end", " ", "pontificate">>, <<"fine", " ", "pontificato">>,
              <<"fin", " ", "du", " ", "pontificat">>}
SecularLabels == {<<"secular", " ", "name">>, <<"nome", " ", "di", " ", "nascita">>,
                  <<"nom", " ", "de", " ", "naissance">>}
BirthLabels == {<<"place", " ", "of", " ", "birth">>, <<"luogo", " ", "di", " ", "nascita">>,
                <<"lieu", " ", "de", " ", "naissance">>}
NumberLabels == {<<"pope", " ", "number">>, <<"numero", " ", "del", " ", "papa">>,
                 <<"numéro", " ", "du", " ", "pape">>}

\* Labels as they stand in the first cell of a row.
LabelTexts ==
    {<<"Pope", " ", "Number", ":">>, <<"End", " ", "Pontificate">>,
     <<"Fine", " ", " ", "pontificato", " ", ":">>, <<"Beginning", " ", "Pontificate">>,
     <<"Secular", " ", "name">>, <<"Place", " ", "of", " ", "birth">>, <<"Born">>}

ValueTexts == {<<>>, <<"7">>}

\* A row is the list of its cells' texts (lines 100-106): one cell, or a
\* label and a value.
MetaRows == {<<l>> : l \in LabelTexts} \cup {<<l, v>> : l \in LabelTexts, v \in ValueTexts}

\* A page: its .subtitle element and its .sinottico table, each absent
\* (<<>>) or present.
MetaPages ==
    [subtitle : {<<>>} \cup {<<s>> : s \in SubtitleTexts},
     sinottico : {<<>>} \cup {<<t>> : t \in UNION {[1..k -> MetaRows] : k \in 0..MaxMetaRows}}]

\* step02, lines 49-50: the stripped text of an element, None without one.
_txt(el) == IF el = <<>> THEN <<>> ELSE <<StripChars(el[1])>>

IsWordChar(c) == c \in Digits \cup LowerLetters \cup UpperLetters \cup {"_"}

\* step02, line 87: re.search(r"\b(\d+)\b", s): the leftmost run of digits
\* with no word character on either side; <<>> without a match.
NumberIn(s) ==
    LET runs == {r \in (1..Len(s)) \X (1..Len(s)) :
                    /\ r[1] <= r[2]
                    /\ \A i \in r[1]..r[2] : s[i] \in Digits
                    /\ (r[1] = 1 \/ ~IsWordChar(s[r[1] - 1]))
                    /\ (r[2] = Len(s) \/ ~IsWordChar(s[r[2] + 1]))}
    IN  IF runs = {} THEN <<>>
        ELSE LET r == CHOOSE x \in runs : \A y \in runs : x[1] <= y[1]
             IN  <<SubSeq(s, r[1], r[2])>>

\* step02, lines 76-82.
EmptyMeta ==
    [pope_number |-> <<>>, pontificate_begin |-> <<>>, pontificate_end |-> <<>>,
     secular_name |-> <<>>, place_of_birth |-> <<>>]

\* step02, lines 85-88: the subtitle pass.  An empty text is falsy.
SubtitlePass(meta, subtitle_txt) ==
    IF subtitle_txt = <<>> \/ subtitle_txt[1] = <<>> THEN meta
    ELSE LET m == NumberIn(subtitle_txt[1])
         IN  [meta EXCEPT !.pope_number = IF m # <<>> THEN m ELSE subtitle_txt]

\* step02, lines 99-123: one row of the table.
MetaRow(meta, cells) ==
    IF Len(cells) < 2 THEN meta
    ELSE LET label == _norm_label(cells[1])
             value == StripChars(cells[2])
         IN  IF value = <<>> THEN meta
             ELSE IF label \in BeginLabels THEN [meta EXCEPT !.pontificate_begin = <<value>>]
             ELSE IF label \in EndLabels THEN [meta EXCEPT !.pontificate_end = <<value>>]
             ELSE IF label \in SecularLabels THEN [meta EXCEPT !.secular_name = <<value>>]
             ELSE IF label \in BirthLabels THEN [meta EXCEPT !.place_of_birth = <<value>>]
             ELSE IF label \in NumberLabels
                  THEN IF meta.pope_number = <<>> \/ meta.pope_number[1] = <<>>
                       THEN [meta EXCEPT !.pope_number = <<value>>]
                       ELSE meta
             ELSE meta

RECURSIVE MetaRowsFold(_, _)
MetaRowsFold(meta, rows) ==
    IF rows = <<>> THEN meta ELSE MetaRowsFold(MetaRow(meta, Head(rows)), Tail(rows))

\* step02, lines 73-125.
extract_pope_metadata_from_main(page) ==
    LET meta == SubtitlePass(EmptyMeta, _txt(page.subtitle))
    IN  IF page.sinottico = <<>> THEN meta
        ELSE MetaRowsFold(meta, page.sinottico[1])

ExtractMetadata(page) ==
    /\ call' = [fn |-> "extract_pope_metadata_from_main", page |-> page]
    /\ result' = extract_pope_metadata_from_main(page)

\* The number of the subtitle of a page, and the pope-number values of
\* its table in row order.
C26_SubtitleNumber(page) ==
    IF page.subtitle = <<>> THEN <<>> ELSE NumberIn(StripChars(page.subtitle[1]))

C26_TableNumbers(page) ==
    IF page.sinottico = <<>> THEN <<>>
    ELSE LET rows == page.sinottico[1]
             at == {i \in 1..Len(rows) :
                       /\ Len(rows[i]) = 2
                       /\ _norm_label(rows[i][1]) \in NumberLabels
                       /\ StripChars(rows[i][2]) # <<>>}
         IN  IF at = {} THEN <<>>
             ELSE <<StripChars(rows[CHOOSE i \in at : \A j \in at : i <= j][2])>>

\* C26: pope_number is the number of the subtitle when it has one,
\* otherwise the pope-number value of the table when present, otherwise
\* null; without an end-of-pontificate row pontificate_end is null.
C26_PopeNumberPrecedence ==
    call.fn = "extract_pope_metadata_from_main" =>
        /\ result.pope_number =
               IF C26_SubtitleNumber(call.page) # <<>> THEN C26_SubtitleNumber(call.page)
               ELSE C26_TableNumbers(call.page)
        /\ (call.page.sinottico = <<>> \/
            \A i \in 1..Len(call.page.sinottico[1]) :
                LET cells == call.page.sinottico[1][i]
                IN  Len(cells) < 2 \/ _norm_label(cells[1]) \notin EndLabels)
               => result.pontificate_end = <<>>


vars == <<dbvars, langvars, batchvars, runvars, httpvars, fnvars>>

Init == DbInit /\ LangInit /\ BatchInit /\ RunInit /\ HttpInit /\ FnInit

Next ==
    \/ \E rec \in SpeechRecords, replace \in BOOLEAN :
          AddPope(rec, replace) /\ UNCHANGED <<langvars, batchvars, runvars, httpvars, fnvars>>
    \/ AddText /\ UNCHANGED <<langvars, batchvars, runvars, httpvars, fnvars>>
    \/ RaiseNotFound /\ UNCHANGED <<langvars, batchvars, runvars, httpvars, fnvars>>
    \/ Terminate /\ UNCHANGED <<langvars, batchvars, runvars, httpvars, fnvars>>

Spec == Init /\ [][Next]_vars

NextLang ==
    \/ \E want \in Langs, u \in BaseUrls, h \in HtmlLangAttrs, t \in BaseTexts, m \in Menus :
          FetchBase(want, [final_url |-> u, html_lang |-> h, text |-> t, menu |-> m])
          /\ UNCHANGED <<dbvars, batchvars, runvars, httpvars, fnvars>>
    \/ FetchBaseRaises /\ UNCHANGED <<dbvars, batchvars, runvars, httpvars, fnvars>>
    \/ TryCandidate /\ UNCHANGED <<dbvars, batchvars, runvars, httpvars, fnvars>>
    \/ EmitRow /\ UNCHANGED <<dbvars, batchvars, runvars, httpvars, fnvars>>
    \/ StoreRow /\ UNCHANGED <<dbvars, batchvars, runvars, httpvars, fnvars>>

SpecLang == Init /\ [][NextLang]_vars

NextBatch ==
    \/ \E pope \in PopeArgLists, csv \in PopeArgLists :
          ParseArgs(pope, csv) /\ UNCHANGED <<dbvars, langvars, runvars, httpvars, fnvars>>
    \/ NextPope /\ UNCHANGED <<dbvars, langvars, runvars, httpvars, fnvars>>
    \/ FetchSpeech /\ UNCHANGED <<dbvars, langvars, runvars, httpvars, fnvars>>
    \/ \E kind \in {"SystemExit", "Exception"} :
          FetchRaises(kind) /\ UNCHANGED <<dbvars, langvars, runvars, httpvars, fnvars>>
    \/ FetchReturns /\ UNCHANGED <<dbvars, langvars, runvars, httpvars, fnvars>>
    \/ Upsert /\ UNCHANGED <<dbvars, langvars, runvars, httpvars, fnvars>>
    \/ UpsertRaises /\ UNCHANGED <<dbvars, langvars, runvars, httpvars, fnvars>>
    \/ PopeSucceeds /\ UNCHANGED <<dbvars, langvars, runvars, httpvars, fnvars>>
    \/ Summary /\ UNCHANGED <<dbvars, langvars, runvars, httpvars, fnvars>>

SpecBatch == Init /\ [][NextBatch]_vars

\* A step in which the fetch stage of the current pope raises.
C30_FetchRaisesStep == bpc = "fetch" /\ bpc' = "loop"

\* C30: while a pope's fetch stage runs none of its rows is written; when
\* the fetch stage raises, the pope has zero rows written and is appended
\* to failures; and no step changes the rows written for another pope.
C30_NoUpsertBeforeFetchEnds ==
    /\ [](bpc = "fetch" => written[pidx] = 0)
    /\ [][C30_FetchRaisesStep
            => /\ written'[pidx] = 0
               /\ Len(failures') = Len(failures) + 1
               /\ failures'[Len(failures')][1] = plist[pidx]
               /\ successes' = successes]_vars
    /\ [][bpc # "args"
            => \A i \in 1..Len(plist) :
                  (i # pidx' \/ bpc' \in {"fetch", "loop", "done"}) => written'[i] = written[i]]_vars

\* The fetch stage of the second pope raised after two rows of the first
\* pope were committed: those stay, the second pope has none and failed.
C30_Witness ==
    /\ bpc = "loop"
    /\ pidx = 2
    /\ written[1] = 2
    /\ written[2] = 0
    /\ successes = <<plist[1]>>
    /\ failures = <<<<plist[2], "SystemExit">>>>

NextRun ==
    \/ /\ rpc = "call"
       /\ \E lang \in LangArgs, section \in SectionArgs, years \in YearSets, max_n \in CapArgs :
             Validate(lang, section, years, max_n)
       /\ UNCHANGED <<dbvars, langvars, batchvars, httpvars, fnvars>>
    \/ \E found \in BOOLEAN :
          FetchDirectory(found) /\ UNCHANGED <<dbvars, langvars, batchvars, httpvars, fnvars>>
    \/ \E ys \in SUBSET {2020, 2021} :
          FetchMain(ys) /\ UNCHANGED <<dbvars, langvars, batchvars, httpvars, fnvars>>
    \/ \E n \in 0..MaxSpeeches :
          FetchYearIndex(n) /\ UNCHANGED <<dbvars, langvars, batchvars, httpvars, fnvars>>
    \/ ProcessSpeech /\ UNCHANGED <<dbvars, langvars, batchvars, httpvars, fnvars>>
    \/ EndYear /\ UNCHANGED <<dbvars, langvars, batchvars, httpvars, fnvars>>
    \/ Finish /\ UNCHANGED <<dbvars, langvars, batchvars, httpvars, fnvars>>

SpecRun == Init /\ [][NextRun]_vars

NextHttp ==
    \/ \E kind \in GetKinds :
          StartGet(kind) /\ UNCHANGED <<dbvars, langvars, batchvars, runvars, fnvars>>
    \/ \E resp \in Responses :
          Respond(resp) /\ UNCHANGED <<dbvars, langvars, batchvars, runvars, fnvars>>

SpecHttp == Init /\ [][NextHttp]_vars

NextStubs ==
    /\ call.fn = Null
    /\ \E page \in IndexPages, u \in IndexUrls, pope_slug \in Slugs, sec \in SectionNames :
          ExtractStubs(page, u, pope_slug, sec)
    /\ UNCHANGED <<dbvars, langvars, batchvars, runvars, httpvars>>

SpecStubs == Init /\ [][NextStubs]_vars

NextCollect ==
    /\ call.fn = Null
    /\ \E items \in YearPages, anchors \in MonthAnchorLists, suffix \in BOOLEAN,
          section \in SectionNames, fetcher \in [MonthNames -> MonthPages] :
          \E alt_anchors \in (IF suffix /\ extract_month_links_for_speeches(
                                                anchors, "francesco", "2020") = <<>>
                                  THEN MonthAnchorLists ELSE {<<>>}) :
              CollectSpeeches([items |-> items, anchors |-> anchors],
                              [slug |-> "francesco", section |-> section,
                               index_suffix |-> suffix],
                              section, [anchors |-> alt_anchors], fetcher)
    /\ UNCHANGED <<dbvars, langvars, batchvars, runvars, httpvars>>

SpecCollect == Init /\ [][NextCollect]_vars

NextYearLinks ==
    /\ call.fn = Null
    /\ \E page \in MainPages, pope_slug \in Slugs, years \in RequestedYears,
          sec \in SectionNames :
          ExtractYearLinks(page, pope_slug, years, sec)
    /\ UNCHANGED <<dbvars, langvars, batchvars, runvars, httpvars>>

SpecYearLinks == Init /\ [][NextYearLinks]_vars

NextNames ==
    /\ call.fn = Null
    /\ \E name \in DisplayNames : LooksLikePope(name)
    /\ UNCHANGED <<dbvars, langvars, batchvars, runvars, httpvars>>

SpecNames == Init /\ [][NextNames]_vars

NextFind ==
    /\ call.fn = Null
    /\ \E directory \in Directories, name \in Queries : FindPope(directory, name)
    /\ UNCHANGED <<dbvars, langvars, batchvars, runvars, httpvars>>

SpecFind == Init /\ [][NextFind]_vars

NextYears ==
    /\ call.fn = Null
    /\ \E spec \in YearSpecs : ParseYears(spec)
    /\ UNCHANGED <<dbvars, langvars, batchvars, runvars, httpvars>>

SpecYears == Init /\ [][NextYears]_vars

NextSection ==
    /\ call.fn = Null
    /\ \E fn \in SectionUsers, section \in SectionArgs : UseSection(fn, section)
    /\ UNCHANGED <<dbvars, langvars, batchvars, runvars, httpvars>>

SpecSection == Init /\ [][NextSection]_vars

NextSchema ==
    \/ /\ call.fn = Null
       /\ \E db \in TextsTables : OpenDb(db)
       /\ UNCHANGED <<dbvars, langvars, batchvars, runvars, httpvars>>
    \/ EnsureDb /\ UNCHANGED <<dbvars, langvars, batchvars, runvars, httpvars>>
    \/ CheckSchema /\ UNCHANGED <<dbvars, langvars, batchvars, runvars, httpvars>>

SpecSchema == Init /\ [][NextSchema]_vars

NextSpeechId ==
    /\ call.fn = Null
    /\ \E pope_slug \in Slugs, section \in SectionNames, date_text \in DateTexts,
          title \in TitleTexts, t \in Titles :
          MakeSpeechId(pope_slug, section, date_text, title, UrlOf(t))
    /\ UNCHANGED <<dbvars, langvars, batchvars, runvars, httpvars>>

SpecSpeechId == Init /\ [][NextSpeechId]_vars


NextMeta ==
    /\ call.fn = Null
    /\ \E page \in MetaPages : ExtractMetadata(page)
    /\ UNCHANGED <<dbvars, langvars, batchvars, runvars, httpvars>>

SpecMeta == Init /\ [][NextMeta]_vars

====
